---------------------------- MODULE Spec2Model ----------------------------
(***************************************************************************)
(* A model of the chatshot messaging client and of its database functions. *)
(*                                                                         *)
(* The module holds one state machine per subsystem, each with its own     *)
(* specification over the shared variables:                                *)
(*   SpecResolver  the get_or_create_private_conversation RPC and the      *)
(*                 SearchBar handler that calls it;                        *)
(*   SpecLegacy    the earlier client-side startConversation;              *)
(*   SpecChat      the open conversation page: fetch, realtime events,     *)
(*                 text sends, replies, soft deletes, and what the views   *)
(*                 render;                                                 *)
(*   SpecTwoSessions  the same page open in two sessions of one user;      *)
(*   SpecDeleteRequests  the same page with the delete handler called on   *)
(*                 any message of the list;                                *)
(*   SpecName      the display name and its change cooldown;               *)
(*   SpecStories   posting stories and listing them by tab;                *)
(*   SpecStoryOrder  one viewer's carousel, the story viewer and the       *)
(*                 order of the listed groups;                             *)
(*   SpecSend      sendMessage with attachments;                           *)
(*   SpecRead      marking the other participants' messages as read;       *)
(*   SpecReactions the reactions on a message: picker, toggle, channel.    *)
(*   SpecWorld     the World Chat migration, re-run, and profile provision;*)
(*   SpecTheme     theme changes of one conversation from two pages;       *)
(* A subsystem's actions leave the other subsystems' variables unchanged.  *)
(***************************************************************************)
EXTENDS Integers, Sequences, FiniteSets, TLC

VARIABLES
    conversations,   \* rows of public.conversations: [id, is_group]
    participants,    \* rows of public.conversation_participants: [conversation_id, user_id]
    advisoryLocks,   \* transaction-scoped advisory locks held: [key, holder]
    rpc,             \* per session: the get_or_create_private_conversation transaction
    searchBar,       \* per session: the SearchBar component (loadingUserId, navigation, toast)
    returned,        \* log of the RPC's successful returns, per pair of distinct users
    legacy,          \* per session: the legacy startConversation handler
    legacyCalls,     \* number of legacy startConversation calls started
    messages,        \* rows of public.messages of the open conversation, in created_at order
    chat,            \* per user: the Chat page (messages state, fetch, channel, replyingTo)
    chatClock,       \* the clock that new Date() reads in handleDeleteMessage
    profileRow,      \* one user's row of public.profiles: full_name, last_name_change
    settings,        \* per AccountSettings dialog of that user: its profile state and last toast
    nameClock,       \* the time in hours that new Date() reads in AccountSettings
    stories,         \* rows of public.stories, in created_at order
    storyViews,      \* rows of public.story_views
    carousel,        \* per user: the StoriesCarousel (userStoriesMap, activeTab, friendIds)
    storyClock,      \* the time in hours that now() and new Date() read for stories
    composer,        \* the Chat page's state during one sendMessage call
    inserted,        \* the rows that call has inserted into public.messages, in order
    readRows,        \* rows of public.messages of two conversations: [id, conversation_id, sender_id, is_read, deleted]
    reader,          \* per user: the Chat page as far as reading goes (conversation, fetch, INSERT events)
    reactionRows,    \* rows of public.message_reactions: [id, message_id, user_id, emoji]
    reactionSeq,     \* number of rows ever inserted into message_reactions (the next id)
    reactor,         \* per user: the Chat page's reactions state, its reaction calls and its channel
    worldDb,         \* the database as the World Chat migration sees it: profiles, conversations, conversation_participants (rows with their row number), and whether the auto-join trigger exists
    bootstrap,       \* the run of the World Chat migration: the statement it stands at and the number of completed runs
    storedTheme,     \* conversations.theme of the open conversation
    themer           \* per page: conversationTheme, the theme write in flight, the theme channel's undelivered events, the number of theme changes made

storeVars    == <<conversations, participants>>
resolverVars == <<advisoryLocks, rpc, searchBar, returned>>
legacyVars   == <<legacy, legacyCalls>>
chatVars     == <<messages, chat, chatClock>>
nameVars     == <<profileRow, settings, nameClock>>
storyVars    == <<stories, storyViews, carousel, storyClock>>
sendVars     == <<composer, inserted>>
readVars     == <<readRows, reader>>
reactionVars == <<reactionRows, reactionSeq, reactor>>
worldVars    == <<worldDb, bootstrap>>
themeVars    == <<storedTheme, themer>>
vars == <<conversations, participants, advisoryLocks, rpc, searchBar, returned,
          legacy, legacyCalls, messages, chat, chatClock,
          profileRow, settings, nameClock,
          stories, storyViews, carousel, storyClock, composer, inserted,
          readRows, reader,
          reactionRows, reactionSeq, reactor,
          worldDb, bootstrap,
          storedTheme, themer>>

\* What each subsystem's actions leave unchanged outside their own variables.
ResolverFrame == <<legacyVars, chatVars, nameVars, storyVars, sendVars, readVars, reactionVars, worldVars, themeVars>>
LegacyFrame   == <<resolverVars, chatVars, nameVars, storyVars, sendVars, readVars, reactionVars, worldVars, themeVars>>
ChatFrame     == <<storeVars, resolverVars, legacyVars, nameVars, storyVars, sendVars, readVars, reactionVars, worldVars, themeVars>>
NameFrame     == <<storeVars, resolverVars, legacyVars, chatVars, storyVars, sendVars, readVars, reactionVars, worldVars, themeVars>>
StoryFrame    == <<resolverVars, legacyVars, chatVars, nameVars, sendVars, readVars, reactionVars, worldVars, themeVars>>
SendFrame     == <<storeVars, resolverVars, legacyVars, chatVars, nameVars, storyVars, readVars, reactionVars, worldVars, themeVars>>
ReadFrame     == <<storeVars, resolverVars, legacyVars, chatVars, nameVars, storyVars, sendVars, reactionVars, worldVars, themeVars>>
ReactionFrame == <<storeVars, resolverVars, legacyVars, chatVars, nameVars, storyVars, sendVars, readVars, worldVars, themeVars>>
WorldFrame    == <<storeVars, resolverVars, legacyVars, chatVars, nameVars, storyVars, sendVars, readVars, reactionVars, themeVars>>
ThemeFrame    == <<storeVars, resolverVars, legacyVars, chatVars, nameVars, storyVars, sendVars, readVars, reactionVars, worldVars>>

----------------------------------------------------------------------------
(* Bounds of the model.                                                    *)

\* Client sessions that may have a call in flight at the same time.
NumSessions == 2
\* Conversation ids gen_random_uuid / crypto.randomUUID may hand out.
MaxConvs == 4
\* Calls of the legacy startConversation in one behaviour.
MaxLegacyCalls == 2
\* Messages sent to the open conversation in one behaviour.
MaxMessages == 2
\* The hours the name-change clock runs for.
MaxHours == 14
\* Stories posted in one behaviour, and the hours the story clock runs for.
MaxStories == 2
MaxStoryHours == 36
\* Files attached to one send.
MaxFiles == 3
\* Reaction handler calls started, over all pages.
MaxReactionCalls == 3
\* Stories posted where one viewer's listing order is followed.
MaxBootstrapRuns == 2
MaxThemeChanges == 2
MaxOrderStories == 3

Sessions == 1..NumSessions
ConvIds  == 1..MaxConvs

----------------------------------------------------------------------------
(* Identities.                                                             *)

NULL     == "NULL"
Profiles == {"A", "B", "C"}
\* A uuid that references no row of public.profiles.
Ghost    == "ghost"

\* The fixed id of the World Chat conversation.
WORLD_CHAT_ID == 0

\* The text order of the uuids' text forms, as LEAST / GREATEST see them.
TextOrd == [u \in Profiles \cup {Ghost} |->
              CASE u = "A" -> 1 [] u = "B" -> 2 [] u = "C" -> 3 [] OTHER -> 4]

SetMin(S) == CHOOSE x \in S : \A y \in S : x <= y

\* The users who have the conversation page open, one page each.
Pages == {"A", "B"}
\* The pages of a user who has the conversation open in two sessions.
TwoSessionPages == {"A", "A2"}
\* The text typed into the composer.
Texts == {"hi"}

\* The AccountSettings dialogs of one user, one per signed-in session.
Dialogs == {"phone", "laptop"}
\* The display names typed into the dialog.
Names == {"Ann", "Anna"}

\* The users whose StoriesCarousel is mounted.
Viewers == {"A", "B"}
OrderViewers == {"A"}

\* What getMediaType tells apart among the selected files.
FileTypes == {"image", "video", "document"}
\* What is in the input field at submit.
Inputs == {"", " ", "trip photos", " trip photos "}
\* The message the composer may be replying to.
ReplyTarget == [id |-> "R"]

\* The unordered pairs of distinct profiles.
Pairs == {pr \in SUBSET Profiles : Cardinality(pr) = 2}

----------------------------------------------------------------------------
(* The store's helper functions.                                           *)

is_world_chat(conversation_id) == conversation_id = WORLD_CHAT_ID

is_conversation_member(conversation_id, user_id) ==
    \E p \in participants :
        p.conversation_id = conversation_id /\ p.user_id = user_id

\* The participant set of a conversation.
MembersOf(conversation_id) ==
    {p.user_id : p \in {q \in participants : q.conversation_id = conversation_id}}

\* hashtext over the text forms of two uuids joined by ':'.  A 32-bit hash of
\* distinct short texts; modelled as injective on the model's uuids, which
\* keeps every interleaving of calls on different pairs.
hashtext(a, b) == TextOrd[a] * (Cardinality(Profiles) + 2) + TextOrd[b]

LEAST(a, b)    == IF TextOrd[a] <= TextOrd[b] THEN a ELSE b
GREATEST(a, b) == IF TextOrd[a] <= TextOrd[b] THEN b ELSE a

\* A lock key that depends on the call's direction: hashtext(_self || ':' || _other).
LockKeyByDirection(self, other) == hashtext(self, other)

\* The advisory lock key of a call: hashtext(_a || ':' || _b).
LockKey(self, other) == hashtext(LEAST(self, other), GREATEST(self, other))

\* The lookup without its join on the other user's participant row.
PrivateCandidatesOfSelfOnly(self, other) ==
    {c.id : c \in {d \in conversations :
                      /\ d.is_group = FALSE
                      /\ ~is_world_chat(d.id)
                      /\ is_conversation_member(d.id, self)}}

\* The SELECT ... LIMIT 1 of the function: the non-group, non-world
\* conversations that have a participant row for _self and one for
\* _other_user_id.
PrivateCandidates(self, other) ==
    {c.id : c \in {d \in conversations :
                      /\ d.is_group = FALSE
                      /\ ~is_world_chat(d.id)
                      /\ is_conversation_member(d.id, self)
                      /\ is_conversation_member(d.id, other)}}

\* A uuid no row and no call in flight uses.
FreshIds ==
    ConvIds \ ({c.id : c \in conversations}
               \cup UNION {rpc[s].conversation_id : s \in Sessions}
               \cup UNION {legacy[s].convoId : s \in Sessions})

----------------------------------------------------------------------------
(* Initial state: the migrations have run; the World Chat exists and every *)
(* profile was auto-joined to it.                                          *)

IdleRpc == [pc |-> "idle", self |-> NULL, other |-> NULL,
            conversation_id |-> {}, error |-> ""]

IdleSearchBar == [loadingUserId |-> NULL, navigatedTo |-> {}, toast |-> ""]

IdleLegacy == [pc |-> "idle", user |-> NULL, profile |-> NULL,
               userConvos |-> {}, existingConvo |-> {}, convoId |-> {},
               navigatedTo |-> {}, toast |-> ""]

\* A Chat page that has just mounted: fetchMessages' request and the
\* channel's subscription are under way.
MountedChat == [pc |-> "fetching", messages |-> <<>>, fetched |-> <<>>,
                subscribed |-> FALSE, queue |-> <<>>, replyingTo |-> {}]

InitChat ==
    /\ messages = <<>>
    /\ chat = [pg \in Pages \cup TwoSessionPages |-> MountedChat]
    /\ chatClock = 1

\* The profile as created at sign-up, and the dialogs before they are opened.
InitName ==
    /\ profileRow = [full_name |-> "Ann", last_name_change |-> {}]
    /\ settings = [dlg \in Dialogs |-> [profile |-> {}, toast |-> ""]]
    /\ nameClock = 0

\* No story yet; every carousel has mounted with the friends tab active and
\* the story viewer closed.
InitStories ==
    /\ stories = <<>>
    /\ storyViews = {}
    /\ carousel = [v \in Viewers |-> [userStoriesMap |-> <<>>, activeTab |-> "friends",
                                      friendIds |-> {}, viewingUserIndex |-> {},
                                      currentStoryIndex |-> 1]]
    /\ storyClock = 0

\* The composer before any submit.
IdleComposer == [pc |-> "idle", newMessage |-> "", selectedFiles |-> <<>>,
                 messageContent |-> "", currentReplyToId |-> {},
                 next |-> 1, imageUrls |-> <<>>, otherUploads |-> <<>>, toasts |-> <<>>]

InitSend ==
    /\ composer = IdleComposer
    /\ inserted = <<>>

\* No message yet; no page has a conversation open.
InitRead ==
    /\ readRows = <<>>
    /\ reader = [pg \in Pages |-> [conversation |-> "none", pc |-> "closed", queue |-> <<>>]]

\* The page of each user shows the message, has fetched its reactions (none)
\* and has subscribed to the reactions channel.
InitReactions ==
    /\ reactionRows = {}
    /\ reactionSeq = 0
    /\ reactor = [pg \in Pages |-> [reactions |-> <<>>, queue |-> <<>>, calls |-> <<>>, toast |-> ""]]

\* Before the World Chat migration has run: no World Chat, no trigger, no
\* profile.
InitWorld ==
    /\ worldDb = [profiles |-> {}, conversations |-> {},
                  conversation_participants |-> {}, trigger |-> FALSE]
    /\ bootstrap = [pc |-> "idle", runs |-> 0]

\* Both pages have the conversation open, have fetched its theme and have
\* subscribed to the theme channel.
InitTheme ==
    /\ storedTheme = "default"
    /\ themer = [pg \in Pages |-> [conversationTheme |-> "default", pc |-> "idle",
                                   themeId |-> "default", queue |-> <<>>, changes |-> 0]]

Init ==
    /\ conversations = {[id |-> WORLD_CHAT_ID, is_group |-> TRUE]}
    /\ participants = {[conversation_id |-> WORLD_CHAT_ID, user_id |-> u] : u \in Profiles}
    /\ advisoryLocks = {}
    /\ rpc = [s \in Sessions |-> IdleRpc]
    /\ searchBar = [s \in Sessions |-> IdleSearchBar]
    /\ returned = [pr \in Pairs |-> {}]
    /\ legacy = [s \in Sessions |-> IdleLegacy]
    /\ legacyCalls = 0
    /\ InitChat
    /\ InitName
    /\ InitStories
    /\ InitSend
    /\ InitRead
    /\ InitReactions
    /\ InitWorld
    /\ InitTheme

----------------------------------------------------------------------------
(* get_or_create_private_conversation, called by SearchBar.startConversation *)

\* The log of returns after a call by self for other returned the ids in ids.
Logged(self, other, ids) ==
    IF {self, other} \in Pairs
    THEN [returned EXCEPT ![{self, other}] = @ \cup ids]
    ELSE returned

\* startConversation up to the RPC's lookup: the handler's guard, the RPC's
\* authentication check, the advisory lock (the call waits while another
\* transaction holds the key) and the SELECT, which under READ COMMITTED
\* sees what is committed when it runs.
StartConversation(s, user, profile) ==
    /\ rpc[s].pc = "idle"
    /\ user # NULL
    /\ searchBar[s].loadingUserId = NULL
    /\ LET self == user
           key  == LockKey(self, profile)
           found == PrivateCandidates(self, profile)
       IN  /\ ~\E l \in advisoryLocks : l.key = key
           /\ advisoryLocks' = advisoryLocks \cup {[key |-> key, holder |-> s]}
           /\ \E picked \in (IF found = {} THEN {{}} ELSE {{c} : c \in found}) :
                 rpc' = [rpc EXCEPT ![s] =
                            [pc |-> IF found = {} THEN "creating" ELSE "found",
                             self |-> self, other |-> profile,
                             conversation_id |-> picked, error |-> ""]]
           /\ searchBar' = [searchBar EXCEPT ![s] =
                               [loadingUserId |-> profile, navigatedTo |-> {}, toast |-> ""]]
    /\ UNCHANGED <<storeVars, returned, ResolverFrame>>

\* A call without identity that gets as far as the advisory lock.
CallWithoutIdentityTakingTheLock(s, profile, error) ==
    /\ rpc[s].pc = "idle"
    /\ advisoryLocks' = advisoryLocks \cup {[key |-> LockKey(profile, profile), holder |-> s]}
    /\ rpc' = [rpc EXCEPT ![s] = [pc |-> "failed", self |-> NULL, other |-> profile,
                                  conversation_id |-> {}, error |-> error]]
    /\ UNCHANGED <<storeVars, searchBar, returned, ResolverFrame>>

\* The RPC called directly with no authenticated identity: auth.uid() is
\* NULL and the function raises not_authenticated as its first statement,
\* or the anon role is refused EXECUTE before the function starts (the
\* REVOKE takes effect only where anon holds no EXECUTE through PUBLIC).
CallWithoutIdentity(s, profile, error) ==
    /\ rpc[s].pc = "idle"
    /\ rpc' = [rpc EXCEPT ![s] = [pc |-> "failed", self |-> NULL, other |-> profile,
                                  conversation_id |-> {}, error |-> error]]
    /\ UNCHANGED <<storeVars, advisoryLocks, searchBar, returned, ResolverFrame>>

\* The transaction ends returning the conversation the SELECT found; the
\* handler navigates to it and clears loadingUserId.
ReturnExisting(s) ==
    /\ rpc[s].pc = "found"
    /\ advisoryLocks' = {l \in advisoryLocks : l.holder # s}
    /\ rpc' = [rpc EXCEPT ![s].pc = "done"]
    /\ returned' = Logged(rpc[s].self, rpc[s].other, rpc[s].conversation_id)
    /\ searchBar' = [searchBar EXCEPT ![s] =
                        [loadingUserId |-> NULL, navigatedTo |-> rpc[s].conversation_id, toast |-> ""]]
    /\ UNCHANGED <<storeVars, ResolverFrame>>

\* The two participant rows of the INSERT are accepted: both users are
\* profiles (the foreign key) and the rows differ (UNIQUE(conversation_id, user_id)).
ParticipantRowsAccepted(self, other) ==
    /\ self \in Profiles
    /\ other \in Profiles
    /\ self # other

\* gen_random_uuid, the two INSERTs and the commit, which makes the rows
\* visible and releases the lock; the handler navigates to the new id.
CreateAndReturn(s) ==
    /\ rpc[s].pc = "creating"
    /\ ParticipantRowsAccepted(rpc[s].self, rpc[s].other)
    /\ \E id \in FreshIds :
          /\ id = SetMin(FreshIds)
          /\ conversations' = conversations \cup {[id |-> id, is_group |-> FALSE]}
          /\ participants' = participants \cup
                {[conversation_id |-> id, user_id |-> rpc[s].self],
                 [conversation_id |-> id, user_id |-> rpc[s].other]}
          /\ rpc' = [rpc EXCEPT ![s].pc = "done", ![s].conversation_id = {id}]
          /\ returned' = Logged(rpc[s].self, rpc[s].other, {id})
          /\ searchBar' = [searchBar EXCEPT ![s] =
                              [loadingUserId |-> NULL, navigatedTo |-> {id}, toast |-> ""]]
    /\ advisoryLocks' = {l \in advisoryLocks : l.holder # s}
    /\ UNCHANGED ResolverFrame

\* A rejection without the rollback: the conversations row inserted before
\* the participant rows stays.
CreateRejectedKeepingTheConversation(s) ==
    /\ rpc[s].pc = "creating"
    /\ ~ParticipantRowsAccepted(rpc[s].self, rpc[s].other)
    /\ \E id \in FreshIds :
          /\ id = SetMin(FreshIds)
          /\ conversations' = conversations \cup {[id |-> id, is_group |-> FALSE]}
    /\ advisoryLocks' = {l \in advisoryLocks : l.holder # s}
    /\ rpc' = [rpc EXCEPT ![s].pc = "failed", ![s].error = "insert_rejected"]
    /\ searchBar' = [searchBar EXCEPT ![s] =
                        [loadingUserId |-> NULL, navigatedTo |-> {},
                         toast |-> "Failed to create conversation"]]
    /\ UNCHANGED <<participants, returned, ResolverFrame>>

\* A participant row is rejected: the transaction rolls back, the lock is
\* released and the handler shows the failure.
CreateRejected(s) ==
    /\ rpc[s].pc = "creating"
    /\ ~ParticipantRowsAccepted(rpc[s].self, rpc[s].other)
    /\ advisoryLocks' = {l \in advisoryLocks : l.holder # s}
    /\ rpc' = [rpc EXCEPT ![s].pc = "failed", ![s].error = "insert_rejected"]
    /\ searchBar' = [searchBar EXCEPT ![s] =
                        [loadingUserId |-> NULL, navigatedTo |-> {},
                         toast |-> "Failed to create conversation"]]
    /\ UNCHANGED <<storeVars, returned, ResolverFrame>>

\* The user returns to the search bar; the next call starts from the lookup.
BackToSearch(s) ==
    /\ rpc[s].pc \in {"done", "failed"}
    /\ rpc' = [rpc EXCEPT ![s] = IdleRpc]
    /\ searchBar' = [searchBar EXCEPT ![s] = IdleSearchBar]
    /\ UNCHANGED <<storeVars, advisoryLocks, returned, ResolverFrame>>

NextResolver ==
    \E s \in Sessions :
        \/ \E user \in Profiles, profile \in Profiles \cup {Ghost} :
              StartConversation(s, user, profile)
        \/ ReturnExisting(s)
        \/ CreateAndReturn(s)
        \/ CreateRejected(s)
        \/ \E profile \in Profiles, error \in {"not_authenticated", "permission_denied"} :
              CallWithoutIdentity(s, profile, error)
        \/ BackToSearch(s)

SpecResolver == Init /\ [][NextResolver]_vars

----------------------------------------------------------------------------
(* The legacy SearchBar.startConversation: a client-side lookup followed   *)
(* by three separate inserts, with no lock and no transaction.             *)

\* The conversation ids of the participant rows of user_id outside World
\* Chat that the row-level policy lets viewer see.
ParticipationsOf(user_id, viewer) ==
    {p.conversation_id : p \in {q \in participants :
                                   /\ q.user_id = user_id
                                   /\ q.conversation_id # WORLD_CHAT_ID
                                   /\ is_conversation_member(q.conversation_id, viewer)}}

\* The handler starts (no call in progress in this component) and its first
\* query reads the caller's own participations.
LegacyReadSelf(s, user, profile) ==
    /\ legacy[s].pc = "idle"
    /\ user # profile
    /\ legacyCalls < MaxLegacyCalls
    /\ legacyCalls' = legacyCalls + 1
    /\ legacy' = [legacy EXCEPT ![s] =
                     [IdleLegacy EXCEPT !.pc = "readOther", !.user = user, !.profile = profile,
                                        !.userConvos = ParticipationsOf(user, user)]]
    /\ UNCHANGED <<storeVars, LegacyFrame>>

\* The second query reads the other user's participations; existingConvo is
\* the first of them that is among the caller's (row order is the store's).
LegacyReadOther(s) ==
    /\ legacy[s].pc = "readOther"
    /\ LET otherParticipants == ParticipationsOf(legacy[s].profile, legacy[s].user)
           shared == otherParticipants \cap legacy[s].userConvos
       IN  IF shared = {}
           THEN \E id \in FreshIds :
                   /\ id = SetMin(FreshIds)
                   /\ legacy' = [legacy EXCEPT ![s].pc = "insertConvo", ![s].convoId = {id}]
           ELSE \E c \in shared :
                   legacy' = [legacy EXCEPT ![s].pc = "checkGroup", ![s].existingConvo = {c}]
    /\ UNCHANGED <<storeVars, legacyCalls, LegacyFrame>>

\* The third query reads is_group of existingConvo: a non-group conversation
\* is navigated to, anything else falls through to creating a new one.
LegacyCheckGroup(s) ==
    /\ legacy[s].pc = "checkGroup"
    /\ LET convoData == {c \in conversations : c.id \in legacy[s].existingConvo}
       IN  IF \E c \in convoData : ~c.is_group
           THEN legacy' = [legacy EXCEPT ![s].pc = "done",
                                         ![s].navigatedTo = legacy[s].existingConvo]
           ELSE \E id \in FreshIds :
                   /\ id = SetMin(FreshIds)
                   /\ legacy' = [legacy EXCEPT ![s].pc = "insertConvo", ![s].convoId = {id}]
    /\ UNCHANGED <<storeVars, legacyCalls, LegacyFrame>>

\* insert({ id: convoId, is_group: false }) with convoId = crypto.randomUUID().
LegacyInsertConvo(s) ==
    /\ legacy[s].pc = "insertConvo"
    /\ conversations' = conversations \cup
          {[id |-> c, is_group |-> FALSE] : c \in legacy[s].convoId}
    /\ legacy' = [legacy EXCEPT ![s].pc = "insertSelf"]
    /\ UNCHANGED <<participants, legacyCalls, LegacyFrame>>

\* The caller's own participant row.
LegacyInsertSelf(s) ==
    /\ legacy[s].pc = "insertSelf"
    /\ participants' = participants \cup
          {[conversation_id |-> c, user_id |-> legacy[s].user] : c \in legacy[s].convoId}
    /\ legacy' = [legacy EXCEPT ![s].pc = "insertOther"]
    /\ UNCHANGED <<conversations, legacyCalls, LegacyFrame>>

\* The third insert writing the caller's id a second time.
LegacyInsertSelfTwice(s) ==
    /\ legacy[s].pc = "insertOther"
    /\ legacy' = [legacy EXCEPT ![s].pc = "done", ![s].navigatedTo = legacy[s].convoId]
    /\ UNCHANGED <<storeVars, legacyCalls, LegacyFrame>>

\* The other user's participant row, then the navigation to the new chat.
LegacyInsertOther(s) ==
    /\ legacy[s].pc = "insertOther"
    /\ participants' = participants \cup
          {[conversation_id |-> c, user_id |-> legacy[s].profile] : c \in legacy[s].convoId}
    /\ legacy' = [legacy EXCEPT ![s].pc = "done", ![s].navigatedTo = legacy[s].convoId]
    /\ UNCHANGED <<conversations, legacyCalls, LegacyFrame>>

\* The user returns to the search bar.
LegacyBackToSearch(s) ==
    /\ legacy[s].pc = "done"
    /\ legacy' = [legacy EXCEPT ![s] = IdleLegacy]
    /\ UNCHANGED <<storeVars, legacyCalls, LegacyFrame>>

NextLegacy ==
    \E s \in Sessions :
        \/ \E user \in Profiles, profile \in Profiles : LegacyReadSelf(s, user, profile)
        \/ LegacyReadOther(s)
        \/ LegacyCheckGroup(s)
        \/ LegacyInsertConvo(s)
        \/ LegacyInsertSelf(s)
        \/ LegacyInsertOther(s)
        \/ LegacyBackToSearch(s)

SpecLegacy == Init /\ [][NextLegacy]_vars

----------------------------------------------------------------------------
(* The open conversation: the Chat page of each user, the messages table   *)
(* and the realtime channel.  The rows carry the columns the views read:   *)
(* id, sender_id, content, deleted_at and reply_to_id; is_read and the     *)
(* mark-as-read writes to it are not part of these rows.                   *)

\* The user signed in on a page.
PageUser(pg) == IF pg = "A2" THEN "A" ELSE pg

TOMBSTONE == "This message was deleted"

Range(seq) == {seq[i] : i \in 1..Len(seq)}

\* The postgres_changes events of one store write, in row order: an INSERT
\* for each row of new that old has no row for, an UPDATE for each changed row.
ChangeEvents(old, new) ==
    LET changed == SelectSeq(new, LAMBDA r : r \notin Range(old))
        oldIds  == {r.id : r \in Range(old)}
    IN  [i \in 1..Len(changed) |->
            [eventType |-> IF changed[i].id \in oldIds THEN "UPDATE" ELSE "INSERT",
             new |-> changed[i]]]

\* The channels deliver a write's events to every subscribed Chat page.
Broadcast(old, new, ch) ==
    [pg \in DOMAIN ch |->
        IF ch[pg].subscribed
        THEN [ch[pg] EXCEPT !.queue = @ \o ChangeEvents(old, new)]
        ELSE ch[pg]]

\* The channel's subscription becomes active.
Subscribed(pg) ==
    /\ ~chat[pg].subscribed
    /\ chat' = [chat EXCEPT ![pg].subscribed = TRUE]
    /\ UNCHANGED <<messages, chatClock, ChatFrame>>

\* The store runs fetchMessages' SELECT ... ORDER BY created_at.
FetchSnapshot(pg) ==
    /\ chat[pg].pc = "fetching"
    /\ chat' = [chat EXCEPT ![pg].pc = "fetched", ![pg].fetched = messages]
    /\ UNCHANGED <<messages, chatClock, ChatFrame>>

\* The response arrives: setMessages(data || []).
FetchApply(pg) ==
    /\ chat[pg].pc = "fetched"
    /\ chat' = [chat EXCEPT ![pg].pc = "open", ![pg].messages = chat[pg].fetched,
                            ![pg].fetched = <<>>]
    /\ UNCHANGED <<messages, chatClock, ChatFrame>>

\* sendMessage, text-only path: the row is inserted with the reply linkage
\* of replyingTo, which is cleared.
SendMessage(pg, text) ==
    /\ chat[pg].pc = "open"
    /\ Len(messages) < MaxMessages
    /\ LET row == [id |-> Len(messages) + 1, sender_id |-> PageUser(pg),
                   content |-> text, deleted_at |-> {},
                   reply_to_id |-> {r.id : r \in chat[pg].replyingTo}]
           new == Append(messages, row)
       IN  /\ messages' = new
           /\ chat' = Broadcast(messages, new, [chat EXCEPT ![pg].replyingTo = {}])
    /\ UNCHANGED <<chatClock, ChatFrame>>

\* The INSERT handler of the messages channel: setMessages(prev => [...prev, newMsg]).
OnInsert(pg) ==
    /\ chat[pg].queue # <<>>
    /\ Head(chat[pg].queue).eventType = "INSERT"
    /\ LET newMsg == Head(chat[pg].queue).new
       IN  chat' = [chat EXCEPT ![pg].queue = Tail(@),
                                ![pg].messages = Append(@, newMsg)]
    /\ UNCHANGED <<messages, chatClock, ChatFrame>>

\* An UPDATE handler that adds the message when no entry has its id.
ReplaceOrAppend(prev, updatedMsg) ==
    IF \E i \in 1..Len(prev) : prev[i].id = updatedMsg.id
    THEN [i \in 1..Len(prev) |-> IF prev[i].id = updatedMsg.id THEN updatedMsg ELSE prev[i]]
    ELSE Append(prev, updatedMsg)

\* prev.map(m => m.id === updatedMsg.id ? updatedMsg : m)
ReplaceById(prev, updatedMsg) ==
    [i \in 1..Len(prev) |-> IF prev[i].id = updatedMsg.id THEN updatedMsg ELSE prev[i]]

\* The UPDATE handler: setMessages(prev => prev.map(...)).
OnUpdate(pg) ==
    /\ chat[pg].queue # <<>>
    /\ Head(chat[pg].queue).eventType = "UPDATE"
    /\ LET updatedMsg == Head(chat[pg].queue).new
       IN  chat' = [chat EXCEPT
                      ![pg].queue = Tail(@),
                      ![pg].messages = ReplaceById(@, updatedMsg)]
    /\ UNCHANGED <<messages, chatClock, ChatFrame>>

\* handleReply from a bubble's actions, which are shown on bubbles that are
\* not deleted: replyingTo keeps the message object of that render.
handleReply(pg, i) ==
    /\ chat[pg].pc = "open"
    /\ i \in 1..Len(chat[pg].messages)
    /\ chat[pg].messages[i].deleted_at = {}
    /\ chat[pg].replyingTo # {chat[pg].messages[i]}
    /\ chat' = [chat EXCEPT ![pg].replyingTo = {chat[pg].messages[i]}]
    /\ UNCHANGED <<messages, chatClock, ChatFrame>>

\* The members of the open conversation: is_conversation_member of the
\* UPDATE policy on messages holds for them.
ConversationMembers == {PageUser(pg) : pg \in Pages \cup TwoSessionPages}

\* The UPDATE statement with no filter on sender_id, limited only by the
\* UPDATE policy on messages (any member of the conversation).
SoftDeleteUpdateByAnyMember(user, messageId) ==
    [j \in 1..Len(messages) |->
        IF messages[j].id = messageId /\ user \in ConversationMembers
        THEN [messages[j] EXCEPT !.deleted_at = {chatClock}]
        ELSE messages[j]]

\* The UPDATE of handleDeleteMessage: deleted_at of the rows with that id
\* AND that sender_id, among the rows the UPDATE policy lets the user touch.
SoftDeleteUpdate(user, messageId) ==
    [j \in 1..Len(messages) |->
        IF /\ messages[j].id = messageId
           /\ messages[j].sender_id = user
           /\ user \in ConversationMembers
        THEN [messages[j] EXCEPT !.deleted_at = {chatClock}]
        ELSE messages[j]]

\* The body of handleDeleteMessage(messageId): the UPDATE, which reports
\* no error when it matches no row, then the same change on the local list.
DeleteRequest(pg, messageId) ==
    /\ LET new == SoftDeleteUpdate(PageUser(pg), messageId)
           local == [chat EXCEPT ![pg].messages =
                        [j \in 1..Len(@) |->
                            IF @[j].id = messageId
                            THEN [@[j] EXCEPT !.deleted_at = {chatClock}]
                            ELSE @[j]]]
       IN  /\ messages' = new
           /\ chat' = Broadcast(messages, new, local)
    /\ chatClock' = chatClock + 1
    /\ UNCHANGED ChatFrame

\* handleDeleteMessage from the actions of one of the user's own bubbles
\* (the bubble offers the actions only on a message that is mine and not
\* deleted).
handleDeleteMessage(pg, i) ==
    /\ chat[pg].pc = "open"
    /\ i \in 1..Len(chat[pg].messages)
    /\ chat[pg].messages[i].deleted_at = {}
    /\ chat[pg].messages[i].sender_id = PageUser(pg)
    /\ DeleteRequest(pg, chat[pg].messages[i].id)

\* handleDeleteMessage called with the id of any message of the local list,
\* whoever sent it.
handleDeleteMessageOfAnyone(pg, i) ==
    /\ chat[pg].pc = "open"
    /\ i \in 1..Len(chat[pg].messages)
    /\ chat[pg].messages[i].deleted_at = {}
    /\ DeleteRequest(pg, chat[pg].messages[i].id)

NextChat ==
    \E pg \in Pages :
        \/ Subscribed(pg)
        \/ FetchSnapshot(pg)
        \/ FetchApply(pg)
        \/ \E text \in Texts : SendMessage(pg, text)
        \/ OnInsert(pg)
        \/ OnUpdate(pg)
        \/ \E i \in 1..MaxMessages + 1 : handleReply(pg, i)
        \/ \E i \in 1..MaxMessages + 1 : handleDeleteMessage(pg, i)

SpecChat == Init /\ [][NextChat]_vars

\* SpecChat with the steps that need no user: a pending subscription becomes
\* active, a pending fetch is answered and applied, a delivered event is
\* handled.
SpecChatFair ==
    /\ Init /\ [][NextChat]_vars
    /\ \A pg \in Pages :
          /\ WF_vars(Subscribed(pg))
          /\ WF_vars(FetchSnapshot(pg))
          /\ WF_vars(FetchApply(pg))
          /\ WF_vars(OnInsert(pg))
          /\ WF_vars(OnUpdate(pg))

\* The conversation open in two sessions of one user.
NextTwoSessions ==
    \E pg \in TwoSessionPages :
        \/ Subscribed(pg)
        \/ FetchSnapshot(pg)
        \/ FetchApply(pg)
        \/ \E text \in Texts : SendMessage(pg, text)
        \/ OnInsert(pg)
        \/ OnUpdate(pg)
        \/ \E i \in 1..MaxMessages + 1 : handleDeleteMessage(pg, i)

SpecTwoSessions == Init /\ [][NextTwoSessions]_vars

\* The chat page where the delete request may name any message.
NextDeleteRequests ==
    \E pg \in Pages :
        \/ Subscribed(pg)
        \/ FetchSnapshot(pg)
        \/ FetchApply(pg)
        \/ \E text \in Texts : SendMessage(pg, text)
        \/ OnInsert(pg)
        \/ OnUpdate(pg)
        \/ \E i \in 1..(MaxMessages + 1) : handleDeleteMessageOfAnyone(pg, i)

SpecDeleteRequests == Init /\ [][NextDeleteRequests]_vars

(* What the views render. *)

\* MessageBubble's body: the tombstone for a deleted message, else its content.
BubbleBody(message) ==
    IF message.deleted_at # {} THEN TOMBSTONE ELSE message.content

\* Chat.tsx's replyToMessage for a bubble: the local message the reply points to.
replyToMessage(pg, message) ==
    {m \in Range(chat[pg].messages) : m.id \in message.reply_to_id}

\* A quoted part that shows the quoted message's content whatever its
\* deleted_at.
BubbleQuoteOfContent(pg, message) ==
    IF message.deleted_at # {} THEN {}
    ELSE {m.content : m \in replyToMessage(pg, message)}

\* MessageBubble's quoted part: none on a deleted bubble or without a
\* replyToMessage; the tombstone when the quoted message is deleted.
BubbleQuote(pg, message) ==
    IF message.deleted_at # {} THEN {}
    ELSE {IF m.deleted_at # {} THEN TOMBSTONE ELSE m.content : m \in replyToMessage(pg, message)}

\* ReplyPreview above the composer: the content of replyingTo.
ReplyPreview(pg) == {m.content : m \in chat[pg].replyingTo}

\* ChatList.fetchConversations: the last message by created_at, of which the
\* list renders the content.
lastMessage ==
    IF messages = <<>> THEN {}
    ELSE {[content |-> messages[Len(messages)].content,
           sender_id |-> messages[Len(messages)].sender_id]}

ChatListPreview == {m.content : m \in lastMessage}

----------------------------------------------------------------------------
(* AccountSettings: the display name and its change cooldown.              *)

NAME_CHANGE_COOLDOWN_HOURS == 12

\* updateCountdown, which the dialog re-runs every second: canChangeName is
\* true without a last_name_change in the dialog's profile, and otherwise
\* when nextAllowed - now <= 0.
canChangeName(dlg) ==
    \A p \in settings[dlg].profile : \A lastChange \in p.last_name_change :
        (lastChange + NAME_CHANGE_COOLDOWN_HOURS) - nameClock <= 0

\* fetchProfile, run when the dialog opens: setProfile(data).
fetchProfile(dlg) ==
    /\ settings' = [settings EXCEPT ![dlg] = [profile |-> {profileRow}, toast |-> ""]]
    /\ UNCHANGED <<profileRow, nameClock, NameFrame>>

\* handleNameChange with newName typed into a loaded dialog: refused with a
\* toast when canChangeName is false; otherwise the UPDATE of full_name and
\* last_name_change, which the store applies or fails, and on success the
\* same change on the dialog's profile.
handleNameChange(dlg, newName, stored) ==
    /\ settings[dlg].profile # {}
    /\ IF ~canChangeName(dlg)
       THEN /\ settings' = [settings EXCEPT ![dlg].toast = "You can only change your name once every 12 hours."]
            /\ UNCHANGED profileRow
       ELSE IF stored
       THEN /\ profileRow' = [full_name |-> newName, last_name_change |-> {nameClock}]
            /\ settings' = [settings EXCEPT
                              ![dlg] = [profile |-> {[full_name |-> newName,
                                                      last_name_change |-> {nameClock}]},
                                        toast |-> "Name updated successfully!"]]
       ELSE /\ settings' = [settings EXCEPT ![dlg].toast = "Failed to update name"]
            /\ UNCHANGED profileRow
    /\ UNCHANGED <<nameClock, NameFrame>>

\* An hour passes.
NameTick ==
    /\ nameClock < MaxHours
    /\ nameClock' = nameClock + 1
    /\ UNCHANGED <<profileRow, settings, NameFrame>>

NextName ==
    \/ \E dlg \in Dialogs :
          \/ fetchProfile(dlg)
          \/ \E newName \in Names, stored \in BOOLEAN : handleNameChange(dlg, newName, stored)
    \/ NameTick

SpecName == Init /\ [][NextName]_vars

----------------------------------------------------------------------------
(* StoriesCarousel: posting stories and listing them by tab.               *)

\* expires_at's default: now() + interval '24 hours'.
STORY_TTL_HOURS == 24

\* The user_ids of rows in order of first appearance (the insertion order
\* of fetchStories' userMap).
RECURSIVE FirstAppearances(_)
FirstAppearances(rows) ==
    IF rows = <<>> THEN <<>>
    ELSE LET rest == FirstAppearances(SubSeq(rows, 1, Len(rows) - 1))
             last == rows[Len(rows)].user_id
         IN  IF last \in Range(rest) THEN rest ELSE Append(rest, last)

\* fetchStories for viewer at time now: the rows with expires_at >= now in
\* created_at order, each with hasViewed, grouped by user and sorted with
\* the viewer's group first and groups with unviewed stories before the rest.
FetchedStories(viewer, rows, views, now) ==
    LET storiesData == SelectSeq(rows, LAMBDA r : r.expires_at >= now)
        viewedStoryIds == {w.story_id : w \in {x \in views : x.viewer_id = viewer}}
        items == [i \in 1..Len(storiesData) |->
                    [id |-> storiesData[i].id, user_id |-> storiesData[i].user_id,
                     visibility |-> storiesData[i].visibility,
                     hasViewed |-> storiesData[i].id \in viewedStoryIds]]
        users == FirstAppearances(items)
        userMap == [i \in 1..Len(users) |->
                      LET own == SelectSeq(items, LAMBDA it : it.user_id = users[i])
                      IN  [user_id |-> users[i], stories |-> own,
                           hasUnviewedStories |-> \E it \in Range(own) : ~it.hasViewed]]
    IN  SelectSeq(userMap, LAMBDA g : g.user_id = viewer)
        \o SelectSeq(userMap, LAMBDA g : g.user_id # viewer /\ g.hasUnviewedStories)
        \o SelectSeq(userMap, LAMBDA g : g.user_id # viewer /\ ~g.hasUnviewedStories)

\* The stories of a fetched group that the active tab keeps.
FilteredStories(v, userStories) ==
    SelectSeq(userStories.stories,
              LAMBDA story :
                 IF carousel[v].activeTab = "world"
                 THEN story.visibility = "world"
                 ELSE story.visibility = "friends"
                      /\ (story.user_id \in carousel[v].friendIds \/ story.user_id = v))

\* filteredUserStoriesMap: the groups the carousel displays.
filteredUserStoriesMap(v) ==
    SelectSeq([i \in 1..Len(carousel[v].userStoriesMap) |->
                  [carousel[v].userStoriesMap[i] EXCEPT
                      !.stories = FilteredStories(v, carousel[v].userStoriesMap[i]),
                      !.hasUnviewedStories =
                          \E it \in Range(FilteredStories(v, carousel[v].userStoriesMap[i])) :
                              ~it.hasViewed]],
              LAMBDA g : g.stories # <<>>)

\* fetchStories, run on mount and on every realtime event on stories.
fetchStories(v) ==
    /\ carousel' = [carousel EXCEPT
                      ![v].userStoriesMap = FetchedStories(v, stories, storyViews, storyClock)]
    /\ UNCHANGED <<stories, storyViews, storyClock, storeVars, StoryFrame>>

\* fetchFriendIds: the other users of the non-world conversations of v.
fetchFriendIds(v) ==
    /\ LET data == {p \in participants : p.conversation_id # WORLD_CHAT_ID}
           myConversations == {p.conversation_id : p \in {q \in data : q.user_id = v}}
       IN  carousel' = [carousel EXCEPT
                          ![v].friendIds =
                              {p.user_id : p \in {q \in data : q.conversation_id \in myConversations
                                                               /\ q.user_id # v}}]
    /\ UNCHANGED <<stories, storyViews, storyClock, storeVars, StoryFrame>>

\* The tab switch; the tabs sit under the viewer's modal dialog while the
\* viewer is open.
setActiveTab(v, tab) ==
    /\ carousel[v].viewingUserIndex = {}
    /\ carousel[v].activeTab # tab
    /\ carousel' = [carousel EXCEPT ![v].activeTab = tab]
    /\ UNCHANGED <<stories, storyViews, storyClock, storeVars, StoryFrame>>

\* uploadStory: when the upload and the insert succeed, the row is stored
\* with the default expires_at and the uploader refetches; otherwise only a
\* toast is shown.
uploadStory(v, newStoryVisibility, stored) ==
    /\ Len(stories) < MaxStories
    /\ IF stored
       THEN LET row == [id |-> Len(stories) + 1, user_id |-> v,
                        visibility |-> newStoryVisibility,
                        expires_at |-> storyClock + STORY_TTL_HOURS]
            IN  /\ stories' = Append(stories, row)
                /\ carousel' = [carousel EXCEPT
                                  ![v].userStoriesMap =
                                      FetchedStories(v, Append(stories, row), storyViews, storyClock)]
       ELSE UNCHANGED <<stories, carousel>>
    /\ UNCHANGED <<storyViews, storyClock, storeVars, StoryFrame>>

\* Two users open a private conversation through
\* get_or_create_private_conversation, run here from call to return.
StartPrivateConversation(self, other) ==
    /\ self # other
    /\ PrivateCandidates(self, other) = {}
    /\ \E id \in FreshIds :
          /\ id = SetMin(FreshIds)
          /\ conversations' = conversations \cup {[id |-> id, is_group |-> FALSE]}
          /\ participants' = participants \cup {[conversation_id |-> id, user_id |-> self],
                                                 [conversation_id |-> id, user_id |-> other]}
    /\ UNCHANGED <<storyVars, StoryFrame>>

\* Twelve hours pass.
StoryTick ==
    /\ storyClock + 12 <= MaxStoryHours
    /\ storyClock' = storyClock + 12
    /\ UNCHANGED <<stories, storyViews, carousel, storeVars, StoryFrame>>

NextStories ==
    \/ \E v \in Viewers :
          \/ fetchStories(v)
          \/ fetchFriendIds(v)
          \/ \E tab \in {"world", "friends"} : setActiveTab(v, tab)
          \/ \E visibility \in {"world", "friends"}, stored \in BOOLEAN :
                uploadStory(v, visibility, stored)
          \/ \E other \in Viewers : StartPrivateConversation(v, other)
    \/ StoryTick

SpecStories == Init /\ [][NextStories]_vars

\* A story arrives in the store from a session outside the model (the
\* author's other device); the carousels refetch on its realtime event.
StoryPosted(author, visibility) ==
    /\ Len(stories) < MaxOrderStories
    /\ stories' = Append(stories, [id |-> Len(stories) + 1, user_id |-> author,
                                   visibility |-> visibility,
                                   expires_at |-> storyClock + STORY_TTL_HOURS])
    /\ UNCHANGED <<storyViews, carousel, storyClock, storeVars, StoryFrame>>

\* The position of the first story of the group that v has not viewed, or
\* the first position when there is none.
FirstToView(userStories) ==
    IF \E i \in 1..Len(userStories.stories) : ~userStories.stories[i].hasViewed
    THEN CHOOSE i \in 1..Len(userStories.stories) :
             /\ ~userStories.stories[i].hasViewed
             /\ \A j \in 1..(i - 1) : userStories.stories[j].hasViewed
    ELSE 1

\* An INSERT into story_views without UNIQUE(story_id, viewer_id).
InsertStoryViewUnchecked(views, storyId, viewer) ==
    views \cup {[id |-> Cardinality(views) + 1, story_id |-> storyId, viewer_id |-> viewer]}

\* supabase.from('story_views').insert({ story_id, viewer_id }): refused
\* under UNIQUE(story_id, viewer_id) when the pair has a row; the callers
\* do not look at the error.
InsertStoryView(views, storyId, viewer) ==
    IF \E w \in views : w.story_id = storyId /\ w.viewer_id = viewer
    THEN views
    ELSE views \cup {[id |-> Cardinality(views) + 1, story_id |-> storyId, viewer_id |-> viewer]}

\* The story that markCurrentStoryViewed reads for the carousel state c:
\* userStoriesMap[viewingUserIndex]?.stories[currentStoryIndex], if any.
StoryToMark(c) ==
    {c.userStoriesMap[vi].stories[c.currentStoryIndex] :
        vi \in {i \in c.viewingUserIndex :
                   /\ i \in 1..Len(c.userStoriesMap)
                   /\ c.currentStoryIndex \in 1..Len(c.userStoriesMap[i].stories)}}

\* The effect on [viewingUserIndex, currentStoryIndex], run for viewer v with
\* carousel state c over the story_views rows views: a current story of
\* someone else that the local list holds as not viewed is inserted into
\* story_views and fetchStories is called.
MarkedViews(v, c, views) ==
    IF \E story \in StoryToMark(c) : ~story.hasViewed /\ story.user_id # v
    THEN InsertStoryView(views, (CHOOSE story \in StoryToMark(c) : TRUE).id, v)
    ELSE views

MarkedCarousel(v, c, views) ==
    IF \E story \in StoryToMark(c) : ~story.hasViewed /\ story.user_id # v
    THEN [c EXCEPT !.userStoriesMap =
             FetchedStories(v, stories, MarkedViews(v, c, views), storyClock)]
    ELSE c

\* viewUserStories(index), called with the position of the clicked group in
\* the displayed list: the viewer opens on userStoriesMap[index] at its first
\* unviewed story, a story of someone else that is not yet viewed gets its
\* story_views row, and the effect on the new indices runs.
viewUserStories(v, userIndex) ==
    /\ carousel[v].viewingUserIndex = {}
    /\ userIndex \in 1..Len(filteredUserStoriesMap(v))
    /\ LET userStories == carousel[v].userStoriesMap[userIndex]
           at == FirstToView(userStories)
           storyToView == userStories.stories[at]
           views == IF ~storyToView.hasViewed /\ storyToView.user_id # v
                    THEN InsertStoryView(storyViews, storyToView.id, v)
                    ELSE storyViews
           opened == [carousel[v] EXCEPT !.viewingUserIndex = {userIndex},
                                         !.currentStoryIndex = at]
       IN  /\ storyViews' = MarkedViews(v, opened, views)
           /\ carousel' = [carousel EXCEPT ![v] = MarkedCarousel(v, opened, views)]
    /\ UNCHANGED <<stories, storyClock, storeVars, StoryFrame>>

\* goToNextStory: the next story of userStoriesMap[viewingUserIndex], else
\* the first story of the next group of userStoriesMap, else the viewer
\* closes; the effect runs on the new indices.
goToNextStory(v) ==
    /\ carousel[v].viewingUserIndex # {}
    /\ \E vi \in carousel[v].viewingUserIndex :
          /\ vi \in 1..Len(carousel[v].userStoriesMap)
          /\ LET c == carousel[v]
                 moved == IF c.currentStoryIndex < Len(c.userStoriesMap[vi].stories)
                          THEN [c EXCEPT !.currentStoryIndex = @ + 1]
                          ELSE IF vi < Len(c.userStoriesMap)
                          THEN [c EXCEPT !.viewingUserIndex = {vi + 1}, !.currentStoryIndex = 1]
                          ELSE [c EXCEPT !.viewingUserIndex = {}, !.currentStoryIndex = 1]
             IN  /\ storyViews' = MarkedViews(v, moved, storyViews)
                 /\ carousel' = [carousel EXCEPT ![v] = MarkedCarousel(v, moved, storyViews)]
    /\ UNCHANGED <<stories, storyClock, storeVars, StoryFrame>>

\* goToPreviousStory: the previous story of the group, else the last story
\* of the previous group of userStoriesMap; the effect runs on the new
\* indices.
goToPreviousStory(v) ==
    /\ carousel[v].viewingUserIndex # {}
    /\ \E vi \in carousel[v].viewingUserIndex :
          /\ vi \in 1..Len(carousel[v].userStoriesMap)
          /\ carousel[v].currentStoryIndex > 1 \/ vi > 1
          /\ LET c == carousel[v]
                 moved == IF c.currentStoryIndex > 1
                          THEN [c EXCEPT !.currentStoryIndex = @ - 1]
                          ELSE [c EXCEPT !.viewingUserIndex = {vi - 1},
                                         !.currentStoryIndex = Len(c.userStoriesMap[vi - 1].stories)]
             IN  /\ storyViews' = MarkedViews(v, moved, storyViews)
                 /\ carousel' = [carousel EXCEPT ![v] = MarkedCarousel(v, moved, storyViews)]
    /\ UNCHANGED <<stories, storyClock, storeVars, StoryFrame>>

\* closeStoryViewer.
closeStoryViewer(v) ==
    /\ carousel[v].viewingUserIndex # {}
    /\ carousel' = [carousel EXCEPT ![v].viewingUserIndex = {}, ![v].currentStoryIndex = 1]
    /\ UNCHANGED <<stories, storyViews, storyClock, storeVars, StoryFrame>>

\* One viewer's carousel with the stories of every profile.
NextStoryOrder ==
    \/ \E author \in Profiles, visibility \in {"world", "friends"} :
          StoryPosted(author, visibility)
    \/ \E v \in OrderViewers :
          \/ fetchStories(v)
          \/ \E tab \in {"world", "friends"} : setActiveTab(v, tab)
          \/ \E userIndex \in 1..MaxOrderStories : viewUserStories(v, userIndex)
          \/ goToNextStory(v)
          \/ goToPreviousStory(v)
          \/ closeStoryViewer(v)

SpecStoryOrder == Init /\ [][NextStoryOrder]_vars

----------------------------------------------------------------------------
(* Chat.sendMessage: text-only sends and composite sends with attachments. *)
(* An uploaded file's url is written as its position in the selection;     *)
(* the labels are written without their emoji.                             *)

PHOTOS_LABEL == "Photos"
PHOTO_LABEL  == "Photo"
VIDEO_LABEL  == "Video"
FILE_LABEL   == "File"

\* newMessage.trim()
Trim(text) ==
    CASE text = " " -> ""
      [] text = " trip photos " -> "trip photos"
      [] OTHER -> text

\* The selections of up to MaxFiles files, by media type.
Selections == UNION {[1..n -> FileTypes] : n \in 0..MaxFiles}

\* media_url of a single file, and of a gallery: JSON.stringify(imageUrls).
Url(u) == [json |-> FALSE, urls |-> <<u>>]
NoUrl == [json |-> FALSE, urls |-> <<>>]
JSONstringify(imageUrls) == [json |-> TRUE, urls |-> imageUrls]

\* A toast, and the selected file its text names, if any.
Toast(text, file) == [text |-> text, file |-> file]

\* Where sendMessage continues once the uploads are over or an insert is done.
AfterUploads(imageUrls, otherUploads) ==
    IF imageUrls # <<>> THEN "images"
    ELSE IF otherUploads # <<>> THEN "others" ELSE "finish"

\* The one submit of a behaviour, with files selected, text typed and perhaps a
\* message being replied to: the guard, the capture of messageContent and
\* currentReplyToId, the reset of the input and of replyingTo; with no file,
\* the text-only insert, which the store accepts or fails.
sendMessage(selectedFiles, newMessage, replyingTo, accepted) ==
    /\ composer.pc = "idle"
    /\ ~(Trim(newMessage) = "" /\ selectedFiles = <<>>)
    /\ LET messageContent == Trim(newMessage)
           currentReplyToId == {m.id : m \in replyingTo}
           started == [IdleComposer EXCEPT !.selectedFiles = selectedFiles,
                                           !.messageContent = messageContent,
                                           !.currentReplyToId = currentReplyToId]
       IN  IF selectedFiles # <<>>
           THEN /\ composer' = [started EXCEPT !.pc = "uploading"]
                /\ inserted' = <<>>
           ELSE IF accepted
           THEN /\ composer' = [started EXCEPT !.pc = "finish"]
                /\ inserted' = <<[content |-> messageContent, media_type |-> "NULL",
                                  media_url |-> NoUrl, reply_to_id |-> currentReplyToId]>>
           ELSE /\ composer' = [started EXCEPT !.pc = "finish",
                                               !.newMessage = messageContent,
                                               !.toasts = <<Toast("Failed to send message", {})>>]
                /\ inserted' = <<>>
    /\ UNCHANGED SendFrame

\* One round of the upload loop: compressImage for an image, uploadFile,
\* getMediaType.  The upload yields a url, or uploadFile returns null after
\* its own toast, or the round throws and the catch names the file.
UploadFile(outcome) ==
    /\ composer.pc = "uploading"
    /\ LET i == composer.next
           mediaType == composer.selectedFiles[i]
           imageUrls == IF outcome = "url" /\ mediaType = "image"
                        THEN Append(composer.imageUrls, i) ELSE composer.imageUrls
           otherUploads == IF outcome = "url" /\ mediaType # "image"
                           THEN Append(composer.otherUploads, [url |-> i, type |-> mediaType])
                           ELSE composer.otherUploads
           toasts == CASE outcome = "url" -> composer.toasts
                       [] outcome = "null" -> Append(composer.toasts, Toast("Failed to upload file", {}))
                       [] outcome = "throw" -> Append(composer.toasts, Toast("Failed to upload", {i}))
           last == i = Len(composer.selectedFiles)
       IN  composer' = [composer EXCEPT
                          !.imageUrls = imageUrls, !.otherUploads = otherUploads,
                          !.toasts = toasts,
                          !.next = IF last THEN 1 ELSE i + 1,
                          !.pc = IF last THEN AfterUploads(imageUrls, otherUploads)
                                 ELSE "uploading"]
    /\ UNCHANGED <<inserted, SendFrame>>

\* ImagesRow if one image too were sent as a gallery.
ImagesRowAlwaysGallery(c) ==
    [content |-> IF c.messageContent # "" THEN c.messageContent ELSE PHOTOS_LABEL,
     media_type |-> "gallery", media_url |-> JSONstringify(c.imageUrls),
     reply_to_id |-> c.currentReplyToId]

\* The row of the images: a gallery for several, an image message for one.
ImagesRow(c) ==
    IF Len(c.imageUrls) > 1
    THEN [content |-> IF c.messageContent # "" THEN c.messageContent ELSE PHOTOS_LABEL,
          media_type |-> "gallery", media_url |-> JSONstringify(c.imageUrls),
          reply_to_id |-> c.currentReplyToId]
    ELSE [content |-> IF c.messageContent # "" THEN c.messageContent ELSE PHOTO_LABEL,
          media_type |-> "image", media_url |-> Url(c.imageUrls[1]),
          reply_to_id |-> c.currentReplyToId]

\* OtherRow if the first non-image message took the caption whether or not
\* there are images.
OtherRowCaptionDespiteImages(c, i) ==
    LET u == c.otherUploads[i]
        fallbackLabel == IF u.type = "video" THEN VIDEO_LABEL ELSE FILE_LABEL
    IN  [content |-> IF c.messageContent # "" /\ i = 1 THEN c.messageContent ELSE fallbackLabel,
         media_type |-> u.type, media_url |-> Url(u.url),
         reply_to_id |-> IF i = 1 THEN c.currentReplyToId ELSE {}]

\* The row of the i-th non-image upload (i from 1).
OtherRow(c, i) ==
    LET u == c.otherUploads[i]
        shouldUseCaption == c.messageContent # "" /\ c.imageUrls = <<>> /\ i = 1
        fallbackLabel == IF u.type = "video" THEN VIDEO_LABEL ELSE FILE_LABEL
    IN  [content |-> IF shouldUseCaption THEN c.messageContent ELSE fallbackLabel,
         media_type |-> u.type, media_url |-> Url(u.url),
         reply_to_id |-> IF i = 1 THEN c.currentReplyToId ELSE {}]

\* The insert of the images' message.  The store accepts it, or returns an
\* error, which the code does not look at, or the call throws and the catch
\* ends the inserts with a toast.
InsertImages(outcome) ==
    /\ composer.pc = "images"
    /\ inserted' = IF outcome = "ok" THEN Append(inserted, ImagesRow(composer)) ELSE inserted
    /\ composer' = [composer EXCEPT
                      !.pc = IF outcome = "throw" \/ composer.otherUploads = <<>>
                             THEN "finish" ELSE "others",
                      !.toasts = IF outcome = "throw"
                                 THEN Append(@, Toast("Failed to send media", {})) ELSE @]
    /\ UNCHANGED SendFrame

\* One round of the loop over the non-image uploads, with the same outcomes.
InsertOther(outcome) ==
    /\ composer.pc = "others"
    /\ LET i == composer.next
       IN  /\ inserted' = IF outcome = "ok" THEN Append(inserted, OtherRow(composer, i))
                          ELSE inserted
           /\ composer' = [composer EXCEPT
                             !.pc = IF outcome = "throw" \/ i = Len(composer.otherUploads)
                                    THEN "finish" ELSE "others",
                             !.next = i + 1,
                             !.toasts = IF outcome = "throw"
                                        THEN Append(@, Toast("Failed to send media", {})) ELSE @]
    /\ UNCHANGED SendFrame

\* The end of sendMessage: clearSelectedFiles after a composite send, the
\* update of the conversation's timestamp, setSending(false).
FinishSend ==
    /\ composer.pc = "finish"
    /\ composer' = [composer EXCEPT !.pc = "done"]
    /\ UNCHANGED <<inserted, SendFrame>>

NextSend ==
    \/ \E selectedFiles \in Selections, newMessage \in Inputs,
          replyingTo \in {{}, {ReplyTarget}}, accepted \in BOOLEAN :
          sendMessage(selectedFiles, newMessage, replyingTo, accepted)
    \/ \E outcome \in {"url", "null", "throw"} : UploadFile(outcome)
    \/ \E outcome \in {"ok", "error", "throw"} : InsertImages(outcome)
    \/ \E outcome \in {"ok", "error", "throw"} : InsertOther(outcome)
    \/ FinishSend

SpecSend == Init /\ [][NextSend]_vars

----------------------------------------------------------------------------
(* Marking messages as read: the UPDATE at the end of fetchMessages and     *)
(* markMessagesAsRead, called by the INSERT handler for a message of        *)
(* someone else.  Both users are participants of both conversations.        *)

ReadConversations == {"c1", "c2"}

\* A mark-read UPDATE without the filter on sender_id.
MarkReadIncludingOwn(rows, user, id) ==
    [j \in 1..Len(rows) |->
        IF rows[j].conversation_id = id /\ rows[j].is_read = FALSE
        THEN [rows[j] EXCEPT !.is_read = TRUE]
        ELSE rows[j]]

\* update({ is_read: true }).eq('conversation_id', id).neq('sender_id', user.id)
\* .eq('is_read', false), the statement of fetchMessages and markMessagesAsRead.
MarkRead(rows, user, id) ==
    [j \in 1..Len(rows) |->
        IF /\ rows[j].conversation_id = id
           /\ rows[j].sender_id # user
           /\ rows[j].is_read = FALSE
        THEN [rows[j] EXCEPT !.is_read = TRUE]
        ELSE rows[j]]

\* The page is opened on conversation id: the effect starts fetchMessages and
\* subscribes to the conversation's channel; the previous channel is removed.
OpenConversation(pg, id) ==
    /\ reader[pg].conversation # id
    /\ reader' = [reader EXCEPT ![pg] = [conversation |-> id, pc |-> "fetching", queue |-> <<>>]]
    /\ UNCHANGED <<readRows, ReadFrame>>

\* The end of fetchMessages: it returns on a SELECT error, and otherwise
\* marks as read.
FetchMarkAsRead(pg, fetched) ==
    /\ reader[pg].pc = "fetching"
    /\ readRows' = IF fetched
                   THEN MarkRead(readRows, PageUser(pg), reader[pg].conversation)
                   ELSE readRows
    /\ reader' = [reader EXCEPT ![pg].pc = "open"]
    /\ UNCHANGED ReadFrame

\* A text message sent from the open conversation: the row is inserted with
\* the column default is_read = false, and the INSERT event goes to every
\* page subscribed to that conversation.
ReadSendMessage(pg) ==
    /\ reader[pg].pc = "open"
    /\ Len(readRows) < MaxMessages
    /\ LET row == [id |-> Len(readRows) + 1, conversation_id |-> reader[pg].conversation,
                   sender_id |-> PageUser(pg), is_read |-> FALSE, deleted |-> FALSE]
       IN  /\ readRows' = Append(readRows, row)
           /\ reader' = [q \in Pages |->
                            IF reader[q].conversation = row.conversation_id
                            THEN [reader[q] EXCEPT !.queue = Append(@, row)]
                            ELSE reader[q]]
    /\ UNCHANGED ReadFrame

\* The INSERT handler: a message from someone else calls markMessagesAsRead.
OnInsertMarkAsRead(pg) ==
    /\ reader[pg].queue # <<>>
    /\ LET newMsg == Head(reader[pg].queue)
       IN  readRows' = IF newMsg.sender_id # PageUser(pg)
                       THEN MarkRead(readRows, PageUser(pg), reader[pg].conversation)
                       ELSE readRows
    /\ reader' = [reader EXCEPT ![pg].queue = Tail(@)]
    /\ UNCHANGED ReadFrame

\* handleDeleteMessage on one of the user's own messages of the open
\* conversation: the UPDATE names deleted_at only.
ReadSoftDelete(pg, j) ==
    /\ reader[pg].pc = "open"
    /\ j \in 1..Len(readRows)
    /\ readRows[j].conversation_id = reader[pg].conversation
    /\ readRows[j].sender_id = PageUser(pg)
    /\ ~readRows[j].deleted
    /\ readRows' = [readRows EXCEPT ![j].deleted = TRUE]
    /\ UNCHANGED <<reader, ReadFrame>>

NextRead ==
    \E pg \in Pages :
        \/ \E id \in ReadConversations : OpenConversation(pg, id)
        \/ \E fetched \in BOOLEAN : FetchMarkAsRead(pg, fetched)
        \/ ReadSendMessage(pg)
        \/ OnInsertMarkAsRead(pg)
        \/ \E j \in 1..MaxMessages : ReadSoftDelete(pg, j)

SpecRead == Init /\ [][NextRead]_vars

----------------------------------------------------------------------------
(* Reactions on one message of the open conversation.  A call of            *)
(* handleAddReaction or handleRemoveReaction is recorded in the page's      *)
(* calls: sent, then answered by the store, then done when the handler has  *)
(* resumed after its await.                                                 *)

Emojis == {"heart"}

REACTED_MESSAGE == 1

RECURSIVE CallsOf(_)
CallsOf(pages) ==
    IF pages = {} THEN 0
    ELSE LET pg == CHOOSE p \in pages : TRUE
         IN  Len(reactor[pg].calls) + CallsOf(pages \ {pg})

RECURSIVE EventsOf(_, _)
EventsOf(type, rows) ==
    IF rows = {} THEN <<>>
    ELSE LET r == CHOOSE x \in rows : \A y \in rows : x.id <= y.id
         IN  <<[eventType |-> type, row |-> r]>> \o EventsOf(type, rows \ {r})

\* The channel's events of a change of the store's rows, sent to every page.
ReactionEvents(type, rows) ==
    [q \in Pages |-> [reactor[q] EXCEPT !.queue = @ \o EventsOf(type, rows)]]

\* A store without the UNIQUE (message_id, user_id, emoji) constraint.
NoUniqueViolation(user, emoji) == FALSE

\* The INSERT would break UNIQUE (message_id, user_id, emoji): error 23505.
UniqueViolation(user, emoji) ==
    \E r \in reactionRows :
        r.message_id = REACTED_MESSAGE /\ r.user_id = user /\ r.emoji = emoji

\* A handler call starts: its statement is on its way to the store.
StartCall(pg, op, kind, emoji) ==
    /\ CallsOf(Pages) < MaxReactionCalls
    /\ reactor' = [reactor EXCEPT ![pg].calls =
                      Append(@, [op |-> op, kind |-> kind, emoji |-> emoji,
                                 stage |-> "sent", result |-> "none", data |-> {}])]
    /\ UNCHANGED <<reactionRows, reactionSeq, ReactionFrame>>

\* An emoji of the reaction picker: onReact, that is handleAddReaction.
onReact(pg, emoji) == StartCall(pg, "react", "add", emoji)

\* A click on the emoji's pill under the bubble, which exists when the local
\* list holds a reaction with that emoji: handleRemoveReaction if the list
\* holds one of the current user, else handleAddReaction.
onToggleReaction(pg, emoji) ==
    /\ \E k \in 1..Len(reactor[pg].reactions) : reactor[pg].reactions[k].emoji = emoji
    /\ LET hasReaction == \E k \in 1..Len(reactor[pg].reactions) :
                              /\ reactor[pg].reactions[k].user_id = PageUser(pg)
                              /\ reactor[pg].reactions[k].emoji = emoji
       IN  StartCall(pg, "toggle", IF hasReaction THEN "remove" ELSE "add", emoji)

\* The store runs the INSERT of handleAddReaction: failed, refused by the
\* unique constraint, or stored and returned.
InsertReaction(pg, i, failed) ==
    /\ i \in 1..Len(reactor[pg].calls)
    /\ reactor[pg].calls[i].kind = "add"
    /\ reactor[pg].calls[i].stage = "sent"
    /\ LET call == reactor[pg].calls[i]
           row == [id |-> reactionSeq + 1, message_id |-> REACTED_MESSAGE,
                   user_id |-> PageUser(pg), emoji |-> call.emoji]
       IN  IF failed
           THEN /\ reactor' = [reactor EXCEPT ![pg].calls[i].stage = "answered",
                                              ![pg].calls[i].result = "error"]
                /\ UNCHANGED <<reactionRows, reactionSeq>>
           ELSE IF UniqueViolation(PageUser(pg), call.emoji)
           THEN /\ reactor' = [reactor EXCEPT ![pg].calls[i].stage = "answered",
                                              ![pg].calls[i].result = "23505"]
                /\ UNCHANGED <<reactionRows, reactionSeq>>
           ELSE /\ reactionRows' = reactionRows \cup {row}
                /\ reactionSeq' = reactionSeq + 1
                /\ reactor' = [ReactionEvents("INSERT", {row}) EXCEPT
                                  ![pg].calls[i].stage = "answered",
                                  ![pg].calls[i].result = "data",
                                  ![pg].calls[i].data = {row}]
    /\ UNCHANGED ReactionFrame

\* The store runs the DELETE of handleRemoveReaction, filtered by
\* message_id, user_id and emoji.
DeleteReaction(pg, i, failed) ==
    /\ i \in 1..Len(reactor[pg].calls)
    /\ reactor[pg].calls[i].kind = "remove"
    /\ reactor[pg].calls[i].stage = "sent"
    /\ LET call == reactor[pg].calls[i]
           gone == {r \in reactionRows : /\ r.message_id = REACTED_MESSAGE
                                         /\ r.user_id = PageUser(pg)
                                         /\ r.emoji = call.emoji}
       IN  IF failed
           THEN /\ reactor' = [reactor EXCEPT ![pg].calls[i].stage = "answered",
                                              ![pg].calls[i].result = "error"]
                /\ UNCHANGED reactionRows
           ELSE /\ reactionRows' = reactionRows \ gone
                /\ reactor' = [ReactionEvents("DELETE", gone) EXCEPT
                                  ![pg].calls[i].stage = "answered",
                                  ![pg].calls[i].result = "ok"]
    /\ UNCHANGED <<reactionSeq, ReactionFrame>>

\* The handler resumes after its await.  handleAddReaction: 23505 returns
\* silently, another error is shown, data is appended to reactions.
\* handleRemoveReaction: an error is shown, else the user's reactions with
\* that message and emoji are filtered out.
HandlerResume(pg, i) ==
    /\ i \in 1..Len(reactor[pg].calls)
    /\ reactor[pg].calls[i].stage = "answered"
    /\ LET call == reactor[pg].calls[i]
           done == [reactor EXCEPT ![pg].calls[i].stage = "done"]
       IN  reactor' =
             IF call.kind = "add"
             THEN IF call.result = "23505" THEN done
                  ELSE IF call.result = "error"
                  THEN [done EXCEPT ![pg].toast = "Failed to add reaction"]
                  ELSE [done EXCEPT ![pg].reactions =
                           @ \o [k \in 1..Cardinality(call.data) |-> CHOOSE r \in call.data : TRUE]]
             ELSE IF call.result = "error"
                  THEN [done EXCEPT ![pg].toast = "Failed to remove reaction"]
                  ELSE [done EXCEPT ![pg].reactions =
                           SelectSeq(@, LAMBDA r : ~(/\ r.message_id = REACTED_MESSAGE
                                                     /\ r.user_id = PageUser(pg)
                                                     /\ r.emoji = call.emoji))]
    /\ UNCHANGED <<reactionRows, reactionSeq, ReactionFrame>>

\* The reactions channel's handler: INSERT appends payload.new, DELETE
\* filters out the entries with the id of payload.old.
OnReactionEvent(pg) ==
    /\ reactor[pg].queue # <<>>
    /\ LET payload == Head(reactor[pg].queue)
       IN  reactor' = [reactor EXCEPT
               ![pg].queue = Tail(@),
               ![pg].reactions =
                   IF payload.eventType = "INSERT" THEN Append(@, payload.row)
                   ELSE SelectSeq(@, LAMBDA r : r.id # payload.row.id)]
    /\ UNCHANGED <<reactionRows, reactionSeq, ReactionFrame>>

NextReactions ==
    \E pg \in Pages :
        \/ \E emoji \in Emojis : onReact(pg, emoji)
        \/ \E emoji \in Emojis : onToggleReaction(pg, emoji)
        \/ \E i \in 1..MaxReactionCalls, failed \in BOOLEAN : InsertReaction(pg, i, failed)
        \/ \E i \in 1..MaxReactionCalls, failed \in BOOLEAN : DeleteReaction(pg, i, failed)
        \/ \E i \in 1..MaxReactionCalls : HandlerResume(pg, i)
        \/ OnReactionEvent(pg)

SpecReactions == Init /\ [][NextReactions]_vars

----------------------------------------------------------------------------
(* The World Chat migration and the auto-join trigger.  A run applies the   *)
(* migration's statements in file order; a profile may be provisioned       *)
(* between any two of them.  Rows carry their row number, so that two rows  *)
(* with one key are representable.                                          *)

\* INSERT INTO conversation_participants (conversation_id, user_id) with no
\* unique constraint to conflict with.
InsertParticipantUnchecked(rows, conversation_id, user_id) ==
    rows \cup {[row |-> Cardinality(rows) + 1,
                conversation_id |-> conversation_id, user_id |-> user_id]}

\* INSERT INTO conversation_participants (conversation_id, user_id) ...
\* ON CONFLICT DO NOTHING, under UNIQUE(conversation_id, user_id).
InsertParticipant(rows, conversation_id, user_id) ==
    IF \E r \in rows : r.conversation_id = conversation_id /\ r.user_id = user_id
    THEN rows
    ELSE rows \cup {[row |-> Cardinality(rows) + 1,
                     conversation_id |-> conversation_id, user_id |-> user_id]}

\* The backfill: INSERT ... SELECT world id, id FROM profiles ON CONFLICT DO
\* NOTHING, one row at a time over the profiles given.
RECURSIVE InsertParticipants(_, _, _)
InsertParticipants(rows, conversation_id, users) ==
    IF users = {} THEN rows
    ELSE LET u == CHOOSE x \in users : \A y \in users : TextOrd[x] <= TextOrd[y]
         IN  InsertParticipants(InsertParticipant(rows, conversation_id, u),
                                conversation_id, users \ {u})

\* A run of the migration starts: INSERT INTO conversations (id, name,
\* is_group, ...) VALUES (world id, 'World Chat', true, ...) ON CONFLICT (id)
\* DO NOTHING, under the primary key on id.
InsertWorldChat ==
    /\ bootstrap.pc = "idle"
    /\ bootstrap.runs < MaxBootstrapRuns
    /\ worldDb' = [worldDb EXCEPT !.conversations =
                     IF \E c \in @ : c.id = WORLD_CHAT_ID
                     THEN @
                     ELSE @ \cup {[row |-> Cardinality(@) + 1, id |-> WORLD_CHAT_ID,
                                   is_group |-> TRUE]}]
    /\ bootstrap' = [bootstrap EXCEPT !.pc = "world_chat"]
    /\ UNCHANGED WorldFrame

\* DROP TRIGGER IF EXISTS on_profile_created_join_world_chat.
DropTrigger ==
    /\ bootstrap.pc = "world_chat"
    /\ worldDb' = [worldDb EXCEPT !.trigger = FALSE]
    /\ bootstrap' = [bootstrap EXCEPT !.pc = "dropped"]
    /\ UNCHANGED WorldFrame

\* CREATE TRIGGER on_profile_created_join_world_chat AFTER INSERT ON profiles.
CreateTrigger ==
    /\ bootstrap.pc = "dropped"
    /\ worldDb' = [worldDb EXCEPT !.trigger = TRUE]
    /\ bootstrap' = [bootstrap EXCEPT !.pc = "created"]
    /\ UNCHANGED WorldFrame

\* "Add existing users to World Chat", the last statement of the run.
AddExistingUsers ==
    /\ bootstrap.pc = "created"
    /\ worldDb' = [worldDb EXCEPT !.conversation_participants =
                     InsertParticipants(@, WORLD_CHAT_ID, worldDb.profiles)]
    /\ bootstrap' = [pc |-> "idle", runs |-> bootstrap.runs + 1]
    /\ UNCHANGED WorldFrame

\* handle_new_user inserts the profile of a new auth user; when the trigger
\* exists, auto_join_world_chat inserts its World Chat row in the same
\* transaction.
ProvisionProfile(p) ==
    /\ p \notin worldDb.profiles
    /\ worldDb' = [worldDb EXCEPT
                     !.profiles = @ \cup {p},
                     !.conversation_participants =
                         IF worldDb.trigger
                         THEN InsertParticipant(@, WORLD_CHAT_ID, p)
                         ELSE @]
    /\ UNCHANGED <<bootstrap, WorldFrame>>

NextWorld ==
    \/ InsertWorldChat
    \/ DropTrigger
    \/ CreateTrigger
    \/ AddExistingUsers
    \/ \E p \in Profiles : ProvisionProfile(p)

SpecWorld == Init /\ [][NextWorld]_vars

----------------------------------------------------------------------------
(* The conversation theme: handleThemeChange and the theme channel.  The    *)
(* write's response and the channel's events travel separately, so either   *)
(* may reach the page first.                                                *)

Themes == {"default", "ocean", "sunset"}

\* handleThemeChange(themeId) up to its await: the UPDATE request leaves.
handleThemeChange(pg, themeId) ==
    /\ themer[pg].pc = "idle"
    /\ themer[pg].changes < MaxThemeChanges
    /\ themer' = [themer EXCEPT ![pg].pc = "requested", ![pg].themeId = themeId,
                                ![pg].changes = @ + 1]
    /\ UNCHANGED <<storedTheme, ThemeFrame>>

\* The store runs update({ theme: themeId }).eq('id', id): the row changes
\* and every subscribed page is sent the UPDATE event, or the store returns
\* an error.
ThemeUpdate(pg, ok) ==
    /\ themer[pg].pc = "requested"
    /\ IF ok
       THEN /\ storedTheme' = themer[pg].themeId
            /\ themer' = [q \in Pages |->
                            [themer[q] EXCEPT
                                !.queue = Append(@, [theme |-> themer[pg].themeId]),
                                !.pc = IF q = pg THEN "updated" ELSE @]]
       ELSE /\ storedTheme' = storedTheme
            /\ themer' = [themer EXCEPT ![pg].pc = "error"]
    /\ UNCHANGED ThemeFrame

\* handleThemeChange after its await: setConversationTheme(themeId) when the
\* write returned no error.
ThemeResponse(pg) ==
    /\ themer[pg].pc \in {"updated", "error"}
    /\ themer' = [themer EXCEPT
                    ![pg].pc = "idle",
                    ![pg].conversationTheme =
                        IF themer[pg].pc = "updated" THEN themer[pg].themeId ELSE @]
    /\ UNCHANGED <<storedTheme, ThemeFrame>>

\* The theme channel's handler: if (updated.theme) setConversationTheme(updated.theme).
OnThemeEvent(pg) ==
    /\ themer[pg].queue # <<>>
    /\ themer' = [themer EXCEPT ![pg].queue = Tail(@),
                                ![pg].conversationTheme = Head(themer[pg].queue).theme]
    /\ UNCHANGED <<storedTheme, ThemeFrame>>

NextTheme ==
    \E pg \in Pages :
        \/ \E themeId \in Themes : handleThemeChange(pg, themeId)
        \/ \E ok \in BOOLEAN : ThemeUpdate(pg, ok)
        \/ ThemeResponse(pg)
        \/ OnThemeEvent(pg)

SpecTheme == Init /\ [][NextTheme]_vars

----------------------------------------------------------------------------
(* Properties of the conversation resolver.                                *)

\* The non-group conversations whose participant set is exactly pr.
PrivateConvsOf(pr) ==
    {c \in conversations : c.is_group = FALSE /\ MembersOf(c.id) = pr}

\* The sessions whose RPC transaction holds its advisory lock.
InTransaction(s) == rpc[s].pc \in {"found", "creating"}

\* C1: for every pair of distinct profiles the store never holds two
\* non-group conversations with exactly that pair as participants, holds
\* exactly one as soon as a call for the pair has returned, and no two calls
\* for the same unordered pair, in either direction, are inside the locked
\* lookup-to-insert region at the same time.
C1_OnePrivateConversationPerPair ==
    /\ \A pr \in Pairs :
          /\ Cardinality(PrivateConvsOf(pr)) <= 1
          /\ returned[pr] # {} => Cardinality(PrivateConvsOf(pr)) = 1
    /\ \A s, t \in Sessions :
          (s # t /\ InTransaction(s) /\ InTransaction(t))
             => {rpc[s].self, rpc[s].other} # {rpc[t].self, rpc[t].other}

\* C1 witness: calls in both directions for one pair have returned, one of
\* them having created the conversation.
C1_Witness ==
    \E s, t \in Sessions :
        /\ rpc[s].pc = "done" /\ rpc[t].pc = "done"
        /\ rpc[s].self # rpc[s].other
        /\ rpc[t].self = rpc[s].other /\ rpc[t].other = rpc[s].self
        /\ Cardinality(PrivateConvsOf({rpc[s].self, rpc[s].other})) = 1

\* C2: all successful returns for one pair of distinct profiles carry the
\* same conversation id, and each client that got a return has navigated to
\* the id its call returned.
C2_SameIdInBothDirections ==
    /\ \A pr \in Pairs : Cardinality(returned[pr]) <= 1
    /\ \A s \in Sessions :
          rpc[s].pc = "done" =>
             /\ rpc[s].conversation_id # {}
             /\ searchBar[s].navigatedTo = rpc[s].conversation_id
             /\ ({rpc[s].self, rpc[s].other} \in Pairs
                   => returned[{rpc[s].self, rpc[s].other}] = rpc[s].conversation_id)

\* C2 witness: two clients, one per direction of the same pair, have both
\* navigated, and to the same conversation.
C2_Witness ==
    \E s, t \in Sessions :
        /\ s # t
        /\ rpc[s].pc = "done" /\ rpc[t].pc = "done"
        /\ rpc[s].self # rpc[s].other
        /\ rpc[t].self = rpc[s].other /\ rpc[t].other = rpc[s].self
        /\ searchBar[s].navigatedTo # {}
        /\ searchBar[s].navigatedTo = searchBar[t].navigatedTo

----------------------------------------------------------------------------
(* Properties of the legacy startConversation.                             *)

\* The legacy calls for the pair pr that have finished by creating a
\* conversation of their own.
LegacyCreators(pr) ==
    {s \in Sessions : /\ legacy[s].pc = "done"
                      /\ legacy[s].convoId # {}
                      /\ {legacy[s].user, legacy[s].profile} = pr}

\* C3: the legacy protocol never merges concurrent creations: every call
\* that passed the existence check and finished its three inserts has left a
\* non-group conversation of its own for the pair, so two such calls for one
\* pair mean two conversations for that pair.
C3_LegacyCreatorsEachLeaveAConversation ==
    \A pr \in Pairs :
        /\ Cardinality(PrivateConvsOf(pr)) >= Cardinality(LegacyCreators(pr))
        /\ \A s \in LegacyCreators(pr) :
              \E c \in PrivateConvsOf(pr) : legacy[s].navigatedTo = {c.id}

\* C3 witness: two legacy calls, one from each party of a pair, both passed
\* the existence check and both created: the pair has two non-group
\* conversations.
C3_Witness ==
    \E s, t \in Sessions :
        /\ s # t
        /\ legacy[s].pc = "done" /\ legacy[t].pc = "done"
        /\ legacy[s].convoId # {} /\ legacy[t].convoId # {}
        /\ legacy[t].user = legacy[s].profile /\ legacy[t].profile = legacy[s].user
        /\ Cardinality(PrivateConvsOf({legacy[s].user, legacy[s].profile})) >= 2

----------------------------------------------------------------------------
(* Properties of the open conversation.                                    *)

\* Every page has loaded, is subscribed, has handled every event sent to it
\* and holds exactly the store's rows.
PagesUpToDate ==
    \A pg \in Pages :
        /\ chat[pg].pc = "open"
        /\ chat[pg].subscribed
        /\ chat[pg].queue = <<>>
        /\ chat[pg].messages = messages

\* What the views of page pg display of the store message m.
ShownOf(pg, m) ==
    {BubbleBody(e) : e \in {x \in Range(chat[pg].messages) : x.id = m.id}}
    \cup UNION {BubbleQuote(pg, e) : e \in {x \in Range(chat[pg].messages) : m.id \in x.reply_to_id}}
    \cup (IF m.id \in {r.id : r \in chat[pg].replyingTo} THEN ReplyPreview(pg) ELSE {})
    \cup (IF m = messages[Len(messages)] THEN ChatListPreview ELSE {})

\* C4: for every message whose deleted_at is set in the store, the bubble,
\* the quoted part of a reply to it, the composer's reply preview and the
\* conversation list's last-message preview display the tombstone and never
\* the message's content.  Stated for the states in which every page is up
\* to date, so that no view is excused by an event still under way.
C4_DeletedMessagesShowOnlyTheTombstone ==
    PagesUpToDate =>
        \A pg \in Pages : \A m \in Range(messages) :
            m.deleted_at # {} => ShownOf(pg, m) \subseteq {TOMBSTONE}

\* C5: the message list of a page never holds two entries with the same id.
C5_NoTwoEntriesWithTheSameId ==
    \A pg \in Pages : \A i, j \in 1..Len(chat[pg].messages) :
        chat[pg].messages[i].id = chat[pg].messages[j].id => i = j

----------------------------------------------------------------------------
(* Properties of the display-name cooldown.                                *)

\* C6: while now - last_name_change < 12 hours for the stored
\* last_name_change, no step changes the profile's full_name or
\* last_name_change, whichever dialog the attempt comes from.
C6_NoNameChangeDuringTheStoredCooldown ==
    [][\A lastChange \in profileRow.last_name_change :
          nameClock - lastChange < NAME_CHANGE_COOLDOWN_HOURS => profileRow' = profileRow]_vars

----------------------------------------------------------------------------
(* Properties of the story listing.                                        *)

\* The ids of the stories the carousel of v displays.
ListedStoryIds(v) ==
    UNION {{it.id : it \in Range(g.stories)} : g \in Range(filteredUserStoriesMap(v))}

\* C7: a story whose expires_at is at or before the present time is in no
\* viewer's displayed listing, on whichever tab.
C7_ExpiredStoriesAreNotListed ==
    \A v \in Viewers : \A story \in Range(stories) :
        storyClock >= story.expires_at => story.id \notin ListedStoryIds(v)

----------------------------------------------------------------------------
(* Properties of composite sends.                                          *)

\* A sendMessage call with attachments has run to its end.
CompositeSendDone == composer.pc = "done" /\ composer.selectedFiles # <<>>

\* Every insert the call had to make was accepted.
AllInserted ==
    Len(inserted) = (IF composer.imageUrls # <<>> THEN 1 ELSE 0) + Len(composer.otherUploads)

\* The media kind and references of each inserted row, in order.
MediaOf(rows) ==
    [idx \in 1..Len(rows) |-> [media_type |-> rows[idx].media_type,
                               media_url |-> rows[idx].media_url]]

\* One message per non-image upload, in selection order.
OtherMedia ==
    [idx \in 1..Len(composer.otherUploads) |->
        [media_type |-> composer.otherUploads[idx].type,
         media_url |-> Url(composer.otherUploads[idx].url)]]

\* The batch with one gallery message for i >= 1 images.
GalleryForAnyImages ==
    (IF Len(composer.imageUrls) >= 1
     THEN <<[media_type |-> "gallery", media_url |-> JSONstringify(composer.imageUrls)]>>
     ELSE <<>>) \o OtherMedia

\* The batch with a gallery message for i >= 2 images and an image message
\* for i = 1.
GalleryForSeveralImages ==
    (IF Len(composer.imageUrls) >= 2
     THEN <<[media_type |-> "gallery", media_url |-> JSONstringify(composer.imageUrls)]>>
     ELSE IF Len(composer.imageUrls) = 1
     THEN <<[media_type |-> "image", media_url |-> Url(composer.imageUrls[1])]>>
     ELSE <<>>) \o OtherMedia

LabelOf(media_type) ==
    CASE media_type = "gallery" -> PHOTOS_LABEL
      [] media_type = "image" -> PHOTO_LABEL
      [] media_type = "video" -> VIDEO_LABEL
      [] OTHER -> FILE_LABEL

\* The message that is to carry the caption: the images' message when an
\* image was uploaded, otherwise the message of the first non-image upload.
CarriesCaption(row) ==
    IF composer.imageUrls # <<>>
    THEN row.media_type \in {"image", "gallery"}
    ELSE row.media_url = Url(composer.otherUploads[1].url)

C10_OnlyTheFirstMessageHasTheReplyLink ==
    (CompositeSendDone /\ AllInserted /\ composer.currentReplyToId # {}) =>
        \A idx \in 1..Len(inserted) :
            inserted[idx].reply_to_id = IF idx = 1 THEN composer.currentReplyToId ELSE {}

----------------------------------------------------------------------------
(* Properties of failed sends.                                             *)

\* The inserts a finished sendMessage call had to make.
InsertsDue ==
    IF composer.selectedFiles = <<>> THEN 1
    ELSE (IF composer.imageUrls # <<>> THEN 1 ELSE 0) + Len(composer.otherUploads)

\* The call is over and one of its inserts failed.
SendInsertFailed == composer.pc = "done" /\ Len(inserted) < InsertsDue

\* C11: when an insert of sendMessage has failed, on the text-only path or
\* on the media path, a send-failure toast was shown and the input field
\* holds the text that was typed.
C11_FailedInsertIsShownAndTextRestored ==
    SendInsertFailed =>
        /\ \E idx \in 1..Len(composer.toasts) :
              composer.toasts[idx].text \in {"Failed to send message", "Failed to send media"}
        /\ composer.newMessage = composer.messageContent

----------------------------------------------------------------------------
(* Properties of soft deletes.                                             *)

\* C12: no step clears or changes a deleted_at that is set in the store; a
\* second delete of the message by its sender keeps the first timestamp.
C12_DeletedAtIsSetOnce ==
    [][\A i \in 1..Len(messages) :
          messages[i].deleted_at # {} =>
              /\ Len(messages') >= i
              /\ messages'[i].deleted_at = messages[i].deleted_at]_vars

RepliesQuoteTheTombstone(pg, id) ==
    \A e \in Range(chat[pg].messages) :
        (id \in e.reply_to_id /\ e.deleted_at = {}) => BubbleQuote(pg, e) = {TOMBSTONE}

----------------------------------------------------------------------------
(* Properties of marking as read.                                          *)

\* C15: a mark-read step of a page (at the end of its fetch, or on an INSERT
\* event of a message from someone else) changes only rows of the page's
\* conversation whose sender is not the page's user, and only their is_read,
\* to true; the UPDATE applied a second time changes nothing; and no step at
\* all removes a row or takes a row's is_read from true to false.
C15_MarkReadOnlyOthersIdempotentNeverReset ==
    [][/\ \A pg \in Pages :
             ((\E fetched \in BOOLEAN : FetchMarkAsRead(pg, fetched)) \/ OnInsertMarkAsRead(pg)) =>
                 /\ Len(readRows') = Len(readRows)
                 /\ \A j \in 1..Len(readRows) :
                       readRows'[j] # readRows[j] =>
                           /\ readRows[j].conversation_id = reader[pg].conversation
                           /\ readRows[j].sender_id # PageUser(pg)
                           /\ readRows'[j] = [readRows[j] EXCEPT !.is_read = TRUE]
       /\ \A pg \in Pages :
             (\/ FetchMarkAsRead(pg, TRUE)
              \/ reader[pg].queue # <<>> /\ Head(reader[pg].queue).sender_id # PageUser(pg)
                    /\ OnInsertMarkAsRead(pg)) =>
                 MarkRead(readRows', PageUser(pg), reader[pg].conversation) = readRows'
       /\ Len(readRows') >= Len(readRows)
       /\ \A j \in 1..Len(readRows) : readRows[j].is_read => readRows'[j].is_read]_vars

\* A page has its conversation open with every event handled; in that
\* conversation a message of the other user is read and a message of the
\* page's own user is not.
C15_Witness ==
    \E pg \in Pages :
        /\ reader[pg].pc = "open"
        /\ reader[pg].queue = <<>>
        /\ \E m, own \in Range(readRows) :
              /\ m.conversation_id = reader[pg].conversation
              /\ own.conversation_id = reader[pg].conversation
              /\ m.sender_id # PageUser(pg)
              /\ m.is_read
              /\ own.sender_id = PageUser(pg)
              /\ ~own.is_read

----------------------------------------------------------------------------
(* Properties of reactions.                                                *)

\* The calls that page pg has started for the emoji, in order.
CallsFor(pg, emoji) == SelectSeq(reactor[pg].calls, LAMBDA c : c.emoji = emoji)

\* The user of pg has used the emoji on the message exactly twice, both times
\* by the toggle; both calls have run to their end without an error, and the
\* page has handled every event sent to it.
ToggledTwice(pg, emoji) ==
    /\ Len(CallsFor(pg, emoji)) = 2
    /\ \A k \in 1..2 :
          /\ CallsFor(pg, emoji)[k].op = "toggle"
          /\ CallsFor(pg, emoji)[k].stage = "done"
          /\ CallsFor(pg, emoji)[k].result # "error"
    /\ reactor[pg].queue = <<>>

\* C16: from no reaction of user U with emoji E on the message, two toggles
\* of (M, U, E), each choosing react or unreact from U's local list, leave
\* neither a row of (M, U, E) in the store nor an entry of it in U's local
\* list once both calls are over and their events are handled.
C16_TwoTogglesReturnToNoReaction ==
    \A pg \in Pages : \A emoji \in Emojis :
        ToggledTwice(pg, emoji) =>
            /\ ~UniqueViolation(PageUser(pg), emoji)
            /\ \A k \in 1..Len(reactor[pg].reactions) :
                  ~(reactor[pg].reactions[k].user_id = PageUser(pg)
                    /\ reactor[pg].reactions[k].emoji = emoji)

\* C17: a react whose triple (message, user, emoji) is already in the store
\* is a silent no-op: the INSERT leaves the rows as they were and sends no
\* event, the handler then neither extends the local list nor shows an
\* error, and the store never holds two rows of one triple.
C17_ReactOnAnExistingTripleIsASilentNoOp ==
    [][/\ \A pg \in Pages : \A i \in 1..Len(reactor[pg].calls) :
             /\ (UniqueViolation(PageUser(pg), reactor[pg].calls[i].emoji)
                 /\ InsertReaction(pg, i, FALSE)) =>
                    /\ reactionRows' = reactionRows
                    /\ \A q \in Pages : reactor'[q].queue = reactor[q].queue
                    /\ reactor'[pg].calls[i].result = "23505"
             /\ (reactor[pg].calls[i].result = "23505" /\ HandlerResume(pg, i)) =>
                    /\ reactor'[pg].reactions = reactor[pg].reactions
                    /\ reactor'[pg].toast = reactor[pg].toast
       /\ \A r1, r2 \in reactionRows' :
             (r1.message_id = r2.message_id /\ r1.user_id = r2.user_id /\ r1.emoji = r2.emoji)
                 => r1 = r2]_vars

\* A react was refused by the unique constraint and its handler has returned.
C17_Witness ==
    \E pg \in Pages : \E i \in 1..Len(reactor[pg].calls) :
        /\ reactor[pg].calls[i].kind = "add"
        /\ reactor[pg].calls[i].result = "23505"
        /\ reactor[pg].calls[i].stage = "done"
        /\ UniqueViolation(PageUser(pg), reactor[pg].calls[i].emoji)

----------------------------------------------------------------------------
(* Properties of the UPDATE handler.                                       *)

\* C18: handling an UPDATE event keeps the length of the page's list, puts
\* the event's message at every position whose entry has its id and leaves
\* every other entry as it was; when no entry has that id the list is
\* unchanged.
C18_UpdateReplacesInPlaceOrIsDropped ==
    [][\A pg \in Pages :
          OnUpdate(pg) =>
              LET updatedMsg == Head(chat[pg].queue).new
                  prev == chat[pg].messages
                  next == chat'[pg].messages
              IN  /\ Len(next) = Len(prev)
                  /\ \A i \in 1..Len(prev) :
                        next[i] = IF prev[i].id = updatedMsg.id THEN updatedMsg ELSE prev[i]
                  /\ (\A i \in 1..Len(prev) : prev[i].id # updatedMsg.id) => next = prev]_vars

\* A page that is still fetching holds two entries that it can only have
\* from events, the first of them deleted by its sender on another page:
\* the UPDATE event has replaced the first entry and left the second.
C18_Witness ==
    \E pg \in Pages :
        /\ chat[pg].pc = "fetching"
        /\ Len(chat[pg].messages) = 2
        /\ chat[pg].messages[1].deleted_at # {}
        /\ chat[pg].messages[1].sender_id # PageUser(pg)
        /\ chat[pg].messages[2].deleted_at = {}
        /\ chat[pg].messages[2].id # chat[pg].messages[1].id

\* The profiles that share a non-world conversation with v in the store.
CurrentFriends(v) ==
    {p.user_id : p \in {q \in participants :
                           /\ q.conversation_id # WORLD_CHAT_ID
                           /\ q.user_id # v
                           /\ \E mine \in participants :
                                 mine.conversation_id = q.conversation_id /\ mine.user_id = v}}

\* The carousel of v holds what fetchStories would return now.
StoriesFresh(v) ==
    carousel[v].userStoriesMap = FetchedStories(v, stories, storyViews, storyClock)

\* The stories that the active tab of v is to list: not expired, of the
\* tab's visibility and, on the friends tab, by v or by a current friend.
StoriesOfTab(v) ==
    {s.id : s \in {r \in Range(stories) :
                      /\ r.expires_at > storyClock
                      /\ r.visibility = carousel[v].activeTab
                      /\ (carousel[v].activeTab = "friends" =>
                             (r.user_id = v \/ r.user_id \in CurrentFriends(v)))}}

\* C19: the world tab lists exactly the non-expired world stories, and the
\* friends tab exactly the non-expired friends stories by the viewer or by a
\* profile that shares a non-world conversation with the viewer now, also
\* one that became a friend after the carousel was loaded.  Stated for the
\* moments at which the carousel's stories are freshly fetched.
C19_EachTabListsExactlyItsStories ==
    \A v \in Viewers : StoriesFresh(v) => ListedStoryIds(v) = StoriesOfTab(v)

\* The rank of a displayed group for viewer v: the viewer's own group, then
\* a group with a displayed story that v has not viewed, then the others.
GroupRank(v, g) ==
    IF g.user_id = v THEN 0
    ELSE IF \E it \in Range(g.stories) :
                ~\E w \in storyViews : w.story_id = it.id /\ w.viewer_id = v
    THEN 1
    ELSE 2

\* C20: on either tab the displayed groups are in the order own group,
\* groups with a story of that tab not yet viewed by the viewer, groups
\* with none.  Stated for the moments at which the carousel's stories are
\* freshly fetched.
C20_GroupsAreOrderedWithinTheTab ==
    \A v \in OrderViewers :
        StoriesFresh(v) =>
            \A i, j \in 1..Len(filteredUserStoriesMap(v)) :
                i < j => GroupRank(v, filteredUserStoriesMap(v)[i])
                            <= GroupRank(v, filteredUserStoriesMap(v)[j])

----------------------------------------------------------------------------
(* Properties of failed resolver calls.                                    *)

\* C21: a get_or_create_private_conversation call that fails (its
\* participant insert is rejected, as for an otherId that is no profile)
\* changes neither conversations nor participants and keeps no lock, so no
\* conversation is ever without its two participant rows; a session that
\* has failed can only go back to idle, and an authenticated call from idle
\* starts with the lookup: it holds the pair's lock and carries what the lookup finds
\* in the store, creating only when the lookup finds nothing.
C21_FailedCallLeavesNothingAndRetryStartsOver ==
    [][\A s \in Sessions :
          /\ rpc'[s].pc = "failed" /\ rpc[s].pc # "failed" =>
                /\ conversations' = conversations
                /\ participants' = participants
                /\ \A l \in advisoryLocks' : l.holder # s
          /\ \A c \in conversations' :
                c.id # WORLD_CHAT_ID =>
                    Cardinality({p \in participants' : p.conversation_id = c.id}) = 2
          /\ rpc[s].pc = "failed" => rpc'[s].pc \in {"failed", "idle"}
          /\ rpc[s].pc = "idle" /\ rpc'[s].pc # "idle" /\ rpc'[s].self # NULL =>
                /\ rpc'[s].pc \in {"found", "creating"}
                /\ \E l \in advisoryLocks' :
                      l.holder = s /\ l.key = LockKey(rpc'[s].self, rpc'[s].other)
                /\ rpc'[s].conversation_id \subseteq PrivateCandidates(rpc'[s].self, rpc'[s].other)
                /\ (rpc'[s].pc = "creating") = (PrivateCandidates(rpc'[s].self, rpc'[s].other) = {})]_vars

\* A call for an otherId that is no profile has failed while another pair's
\* conversation exists in the store.
C21_Witness ==
    \E s \in Sessions :
        /\ rpc[s].pc = "failed"
        /\ rpc[s].other = Ghost
        /\ \E c \in conversations : c.id # WORLD_CHAT_ID

\* C22: a call made with no authenticated identity ends as a failure with a
\* not-authenticated error (raised by the function, or the refusal of
\* EXECUTE to the anon role) in the step it is made: it takes no advisory
\* lock and leaves conversations and participants unchanged.
C22_UnauthenticatedCallFailsBeforeTheLock ==
    [][\A s \in Sessions :
          (rpc[s].pc = "idle" /\ rpc'[s].pc # "idle" /\ rpc'[s].self = NULL) =>
              /\ rpc'[s].pc = "failed"
              /\ rpc'[s].error \in {"not_authenticated", "permission_denied"}
              /\ advisoryLocks' = advisoryLocks
              /\ conversations' = conversations
              /\ participants' = participants]_vars

\* A call without identity has failed while a private conversation exists
\* and another session's call holds a lock.
C22_Witness ==
    \E s \in Sessions :
        /\ rpc[s].pc = "failed"
        /\ rpc[s].self = NULL
        /\ rpc[s].error = "not_authenticated"
        /\ \E c \in conversations : c.id # WORLD_CHAT_ID
        /\ advisoryLocks # {}

\* C23: after any sequence of story openings and navigations, story_views
\* holds at most one row per (story, viewer) pair and no row whose viewer is
\* the author of the story.
C23_OneViewPerStoryAndViewerNoneByTheAuthor ==
    /\ \A w1 \in storyViews, w2 \in storyViews :
          (w1.story_id = w2.story_id /\ w1.viewer_id = w2.viewer_id) => w1 = w2
    /\ \A w \in storyViews :
          \A i \in 1..Len(stories) :
              stories[i].id = w.story_id => stories[i].user_id # w.viewer_id

\* The viewer stands on its own story after having viewed two stories of
\* others.
C23_Witness ==
    \E v \in OrderViewers :
        /\ \E story \in StoryToMark(carousel[v]) : story.user_id = v
        /\ Cardinality({w \in storyViews : w.viewer_id = v}) = 2

\* currentStory of the render: the story at currentStoryIndex of the group
\* at viewingUserIndex of the displayed (tab-filtered) list, if any.
DisplayedStory(v) ==
    {filteredUserStoriesMap(v)[vi].stories[carousel[v].currentStoryIndex] :
        vi \in {i \in carousel[v].viewingUserIndex :
                   /\ i \in 1..Len(filteredUserStoriesMap(v))
                   /\ carousel[v].currentStoryIndex
                          \in 1..Len(filteredUserStoriesMap(v)[i].stories)}}

\* C28: whenever the story viewer is open, a story is displayed and it is
\* the story that the viewer logic reads for recording views and for
\* bounding navigation.
C28_ViewerReadsTheDisplayedStory ==
    \A v \in OrderViewers :
        carousel[v].viewingUserIndex # {} =>
            /\ DisplayedStory(v) # {}
            /\ {s.id : s \in DisplayedStory(v)} = {s.id : s \in StoryToMark(carousel[v])}

\* C24: once the migration has run, after any completed re-runs and profile
\* provisions conversations holds exactly one World Chat row (the fixed id)
\* and every profile has exactly one participant row in it.
C24_OneWorldChatEveryProfileJoinedOnce ==
    (bootstrap.runs >= 1 /\ bootstrap.pc = "idle") =>
        /\ Cardinality({c \in worldDb.conversations : is_world_chat(c.id)}) = 1
        /\ \A p \in worldDb.profiles :
              Cardinality({r \in worldDb.conversation_participants :
                              r.conversation_id = WORLD_CHAT_ID /\ r.user_id = p}) = 1
        /\ \A r \in worldDb.conversation_participants : r.user_id \in worldDb.profiles

\* The migration has been re-run, every profile is provisioned and each has
\* its World Chat row.
C24_Witness ==
    /\ bootstrap = [pc |-> "idle", runs |-> MaxBootstrapRuns]
    /\ worldDb.profiles = Profiles
    /\ Cardinality(worldDb.conversation_participants) = Cardinality(Profiles)

\* The selected files (by position) whose upload yielded a url.
UploadedFiles ==
    Range(composer.imageUrls) \cup {composer.otherUploads[k].url : k \in 1..Len(composer.otherUploads)}

\* C25: when a send with several files has run to its end, every file was
\* either uploaded or reported, every uploaded file is in a message of the
\* batch, and every file that failed has exactly one failure report, which
\* names it.
C25_EveryFailedFileIsReportedOnceByName ==
    (CompositeSendDone /\ Len(composer.selectedFiles) > 1) =>
        /\ Cardinality(UploadedFiles) + Len(composer.toasts) >= Len(composer.selectedFiles)
        /\ \A i \in UploadedFiles :
              \E k \in 1..Len(inserted) : i \in Range(inserted[k].media_url.urls)
        /\ \A i \in (1..Len(composer.selectedFiles)) \ UploadedFiles :
              Cardinality({k \in 1..Len(composer.toasts) : composer.toasts[k].file = {i}}) = 1

\* C26: on every page the local message list is in non-decreasing order of
\* creation (the store assigns ids in the order of created_at).
C26_LocalListIsInCreationOrder ==
    \A pg \in Pages :
        \A i \in 1..Len(chat[pg].messages), j \in 1..Len(chat[pg].messages) :
            i < j => chat[pg].messages[i].id <= chat[pg].messages[j].id

\* C27: every message committed to the conversation eventually appears in
\* the local list of every page that has the conversation open.
C27_CommittedMessagesEventuallyAppear ==
    \A pg \in Pages, id \in 1..MaxMessages :
        (Len(messages) >= id) ~> (\E i \in 1..Len(chat[pg].messages) : chat[pg].messages[i].id = id)

\* C29: once every theme write has returned and every theme event has been
\* handled, each page's conversationTheme is the stored theme.
C29_ThemesConvergeOnTheStoredTheme ==
    (\A pg \in Pages : themer[pg].pc = "idle" /\ themer[pg].queue = <<>>) =>
        \A pg \in Pages : themer[pg].conversationTheme = storedTheme

\* C30: every conversation id that a call of get_or_create_private_conversation
\* has returned is a non-group, non-World-Chat conversation whose participants
\* are exactly the caller and the other user of the call.
C30_ReturnedConversationIsOfCallerAndOther ==
    \A s \in Sessions :
        rpc[s].pc = "done" =>
            \A id \in rpc[s].conversation_id :
                /\ \E c \in conversations : c.id = id /\ c.is_group = FALSE
                /\ ~is_world_chat(id)
                /\ MembersOf(id) = {rpc[s].self, rpc[s].other}

=============================================================================
